---- MODULE Spec2Model ----
(***************************************************************************)
(* Model of the assignment engine of src/app.py (process_pdf_file and the  *)
(* two strategy functions it calls).                                       *)
(*                                                                         *)
(* Python dicts are insertion ordered: a dict whose iteration order is     *)
(* observable is a sequence of records; a dict only read by key is a TLA+  *)
(* function.  Python sets have no specified iteration order: wherever the  *)
(* code iterates a set, the order is a parameter chosen by the action.     *)
(* score, load_percentage and the 0.7 / 1.2 / 1.3 factors are rationals in *)
(* the code; they are compared here after multiplying both sides by the    *)
(* common denominator.                                                     *)
(***************************************************************************)
EXTENDS Integers, Sequences, FiniteSets, TLC

\* ------------------------------------------------------------------ bounds
\* largest sum of the quantities of a document
MaxTotalQuantity == 4
\* largest machine count of a request
MaxMachines == 3

\* ------------------------------------------------------- input vocabulary
\* zip codes of the sections, in document order
ZipNames == <<"11501", "11801", "11803">>
\* store names, in the order sorted([store1, store2]) puts them
NameOrder == <<"STORE A", "STORE B", "STORE C">>
StoreNames == {NameOrder[i] : i \in DOMAIN NameOrder}
\* labels of the mail-date table: two week days, the empty label of a zip
\* code the table does not list, and a label outside ordered_days
MailLabels == {"MON", "TUES", "", "HOLIDAY"}
\* the labels of the tables the larger documents are scheduled under
TableLabels == {"MON", ""}

\* ---------------------------------------------------------------- helpers
\* sum(...) of the first n entries of a list
RECURSIVE SumTo(_, _)
SumTo(s, n) == IF n = 0 THEN 0 ELSE SumTo(s, n - 1) + s[n]

SumSeq(s) == SumTo(s, Len(s))

\* [v] * num, {i: v for i in range(num)}: one entry v per machine
RECURSIVE Filled(_, _)
Filled(num, v) == IF num <= 0 THEN <<>> ELSE Append(Filled(num - 1, v), v)

MaxOf(s) == CHOOSE x \in {s[i] : i \in DOMAIN s} : \A j \in DOMAIN s : s[j] <= x

MinOf(s) == CHOOSE x \in {s[i] : i \in DOMAIN s} : \A j \in DOMAIN s : x <= s[j]

\* list.index(min(list)) + 1: the first machine of minimal load
MinLoadMachine(loads) ==
    LET least == MinOf(loads)
    IN CHOOSE i \in DOMAIN loads :
          /\ loads[i] = least
          /\ \A j \in 1..(i - 1) : loads[j] # least

\* sorted(items, key=...): stable, ascending in the integer keys k[i]
StableSort(s, k) ==
    LET n == Len(s)
        pos(i) == 1 + Cardinality({j \in 1..n : k[j] < k[i] \/ (k[j] = k[i] /\ j < i)})
    IN [p \in 1..n |-> s[CHOOSE i \in 1..n : pos(i) = p]]

\* max(items, key=...): the first item of maximal key
FirstMaxIndex(k) == CHOOSE i \in DOMAIN k :
    /\ \A j \in DOMAIN k : k[j] <= k[i]
    /\ \A j \in 1..(i - 1) : k[j] < k[i]

\* the order in which a dict gets its keys: first occurrences, in order
RECURSIVE Distinct(_)
Distinct(s) ==
    IF s = <<>> THEN <<>>
    ELSE LET r == Distinct(SubSeq(s, 1, Len(s) - 1))
             x == s[Len(s)]
         IN IF \E i \in DOMAIN r : r[i] = x THEN r ELSE Append(r, x)

RECURSIVE Flatten(_)
Flatten(ss) == IF ss = <<>> THEN <<>> ELSE Head(ss) \o Flatten(Tail(ss))

Range(s) == {s[i] : i \in DOMAIN s}

\* ------------------------------------------------------------ mail dates
ordered_days == <<"MON", "TUES", "WED", "THURS", "FRI", "SAT", "SUN", "">>

\* key=lambda x: ordered_days.index(x) if x in ordered_days else len(ordered_days)
DayKey(x) ==
    IF \E i \in DOMAIN ordered_days : ordered_days[i] = x
    THEN (CHOOSE i \in DOMAIN ordered_days : ordered_days[i] = x) - 1
    ELSE Len(ordered_days)

SortMailDates(dates) == StableSort(dates, [i \in DOMAIN dates |-> DayKey(dates[i])])

\* the store lines of the records of data, in iteration order, each with its
\* zip code
AllLines(data) ==
    Flatten([i \in DOMAIN data |->
        [j \in DOMAIN data[i].stores |->
            [zipcode |-> data[i].zipcode,
             store_name |-> data[i].stores[j].store_name,
             quantity |-> data[i].stores[j].quantity]]])

Quantity(line) == line.quantity

SumQuantity(lines) == SumSeq([i \in DOMAIN lines |-> Quantity(lines[i])])

\* ------------------------------------------------------- parse_pick_lists
\* A line of a section is one of: the table header ("header"), a line that
\* ends the table ("end": "Page:" or "0"), a line the table skips ("skip":
\* blank, "Total -", "Machine#", "Day#"), a line the first pattern matches
\* ("row3": name, quantity, weight), a line only the second pattern matches
\* ("row2": name, quantity), and a line neither pattern matches ("junk").
\* A section carries no zip-code marker ("none"), a marker without digits
\* ("nodigits"), or the digits of its marker.
HasZipcode(section) == section.marker \notin {"none", "nodigits"}

\* ScanLines leaving the section at the first line no pattern matches
RECURSIVE ScanLines_StopAtJunk(_, _, _, _)
ScanLines_StopAtJunk(lines, i, store_data_section, stores) ==
    IF i > Len(lines) THEN stores
    ELSE IF lines[i].kind = "header"
    THEN ScanLines_StopAtJunk(lines, i + 1, TRUE, stores)
    ELSE IF store_data_section /\ lines[i].kind \in {"end", "junk"} THEN stores
    ELSE IF store_data_section /\ lines[i].kind \in {"row3", "row2"}
    THEN ScanLines_StopAtJunk(lines, i + 1, store_data_section,
             Append(stores, [store_name |-> lines[i].store_name,
                             quantity |-> lines[i].quantity]))
    ELSE ScanLines_StopAtJunk(lines, i + 1, store_data_section, stores)

\* the loop over the lines of one section: the store lines it collects
RECURSIVE ScanLines(_, _, _, _)
ScanLines(lines, i, store_data_section, stores) ==
    IF i > Len(lines) THEN stores
    ELSE IF lines[i].kind = "header" THEN ScanLines(lines, i + 1, TRUE, stores)
    ELSE IF store_data_section /\ lines[i].kind = "end" THEN stores
    ELSE IF store_data_section /\ lines[i].kind \in {"row3", "row2"}
    THEN ScanLines(lines, i + 1, store_data_section,
             Append(stores, [store_name |-> lines[i].store_name,
                             quantity |-> lines[i].quantity]))
    ELSE ScanLines(lines, i + 1, store_data_section, stores)

\* structured_data[zipcode] = {...}: a key keeps the place of its first
\* insertion
PutRecord(structured_data, zipcode, stores) ==
    IF \E i \in DOMAIN structured_data : structured_data[i].zipcode = zipcode
    THEN [i \in DOMAIN structured_data |->
             IF structured_data[i].zipcode = zipcode
             THEN [zipcode |-> zipcode, stores |-> stores]
             ELSE structured_data[i]]
    ELSE Append(structured_data, [zipcode |-> zipcode, stores |-> stores])

\* the loop over sections
RECURSIVE ParseSections(_, _, _)
ParseSections(sections, k, structured_data) ==
    IF k > Len(sections) THEN structured_data
    ELSE IF ~HasZipcode(sections[k]) THEN ParseSections(sections, k + 1, structured_data)
    ELSE LET stores == ScanLines(sections[k].lines, 1, FALSE, <<>>)
         IN IF stores # <<>>
            THEN ParseSections(sections, k + 1,
                     PutRecord(structured_data, sections[k].marker, stores))
            ELSE ParseSections(sections, k + 1, structured_data)

parse_pick_lists(data) == ParseSections(data, 1, <<>>)

\* ----------------------------------- create_machine_schedule_by_zipcode
ZipWeight(info) == SumQuantity(info.stores)

ZipInserts(info) == {info.stores[i].store_name : i \in DOMAIN info.stores}

SortedZipcodes(data) == StableSort(data, [i \in DOMAIN data |-> 0 - ZipWeight(data[i])])

\* ScoreNum with a load_balance_penalty of load_percentage * 0.5
ScoreNum_SmallPenalty(current_inserts, load, total_load, zipcode_inserts) ==
    LET t == IF total_load = 0 THEN 1 ELSE total_load
        overlap == Cardinality(zipcode_inserts \cap current_inserts)
        new_inserts == Cardinality(zipcode_inserts \ current_inserts)
    IN IF current_inserts = {}
       THEN 0 - load
       ELSE 2 * t * overlap - t * new_inserts - load

\* 2 * total_load * score of one machine (total_load taken as 1 while it is
\* 0, where load_percentage is 0 and every load is 0)
ScoreNum(current_inserts, load, total_load, zipcode_inserts) ==
    LET t == IF total_load = 0 THEN 1 ELSE total_load
        overlap == Cardinality(zipcode_inserts \cap current_inserts)
        new_inserts == Cardinality(zipcode_inserts \ current_inserts)
    IN IF current_inserts = {}
       THEN 0 - 10 * load
       ELSE 2 * t * overlap - t * new_inserts - 10 * load

\* BestMachine taking the last, not the first, of the machines that tie in
\* score and load
BestMachine_LastTie(machine_inserts, machine_loads, zipcode_inserts) ==
    LET n == Len(machine_loads)
        total_load == SumSeq(machine_loads)
        sc(m) == ScoreNum(machine_inserts[m], machine_loads[m], total_load, zipcode_inserts)
        before(a, b) == \/ sc(a) > sc(b)
                        \/ sc(a) = sc(b) /\ machine_loads[a] < machine_loads[b]
                        \/ sc(a) = sc(b) /\ machine_loads[a] = machine_loads[b] /\ a > b
    IN CHOOSE m \in 1..n : \A o \in (1..n) \ {m} : before(m, o)

\* overlap_scores.sort(key=lambda x: (-x[1], x[2])); overlap_scores[0][0]
BestMachine(machine_inserts, machine_loads, zipcode_inserts) ==
    LET n == Len(machine_loads)
        total_load == SumSeq(machine_loads)
        sc(m) == ScoreNum(machine_inserts[m], machine_loads[m], total_load, zipcode_inserts)
        before(a, b) == \/ sc(a) > sc(b)
                        \/ sc(a) = sc(b) /\ machine_loads[a] < machine_loads[b]
                        \/ sc(a) = sc(b) /\ machine_loads[a] = machine_loads[b] /\ a < b
    IN CHOOSE m \in 1..n : \A o \in (1..n) \ {m} : before(m, o)

\* AssignZipcode recording the machine's index in machine_loads, not its id
AssignZipcode_LoadIndex(st, info) ==
    LET ins == ZipInserts(info)
        best_machine == BestMachine(st.machine_inserts, st.machine_loads, ins)
    IN [machine_inserts |-> [st.machine_inserts EXCEPT ![best_machine] = @ \cup ins],
        machine_loads |-> [st.machine_loads EXCEPT ![best_machine] = @ + ZipWeight(info)],
        zipcode_machine |-> (info.zipcode :> (best_machine - 1)) @@ st.zipcode_machine]

\* AssignZipcode counting the zip code, not its weight, into machine_loads
AssignZipcode_CountLoad(st, info) ==
    LET ins == ZipInserts(info)
        best_machine == BestMachine(st.machine_inserts, st.machine_loads, ins)
    IN [machine_inserts |-> [st.machine_inserts EXCEPT ![best_machine] = @ \cup ins],
        machine_loads |-> [st.machine_loads EXCEPT ![best_machine] = @ + 1],
        zipcode_machine |-> (info.zipcode :> best_machine) @@ st.zipcode_machine]

\* one iteration of the loop over sorted_zipcodes
AssignZipcode(st, info) ==
    LET ins == ZipInserts(info)
        best_machine == BestMachine(st.machine_inserts, st.machine_loads, ins)
    IN [machine_inserts |-> [st.machine_inserts EXCEPT ![best_machine] = @ \cup ins],
        machine_loads |-> [st.machine_loads EXCEPT ![best_machine] = @ + ZipWeight(info)],
        zipcode_machine |-> (info.zipcode :> best_machine) @@ st.zipcode_machine]

RECURSIVE AssignZipcodes(_, _)
AssignZipcodes(st, infos) ==
    IF infos = <<>> THEN st
    ELSE AssignZipcodes(AssignZipcode(st, Head(infos)), Tail(infos))

EmptyMachines(num) ==
    [machine_inserts |-> Filled(num, {}),
     machine_loads |-> Filled(num, 0),
     zipcode_machine |-> <<>>]

\* store_machine_appearances[store_name]: machine -> summed quantity, in the
\* order the machines are first met
MachineQuantities(store_name, data, zipcode_machine) ==
    LET apps == SelectSeq(AllLines(data),
            LAMBDA l : l.store_name = store_name /\ l.zipcode \in DOMAIN zipcode_machine)
        machines == Distinct([i \in DOMAIN apps |-> zipcode_machine[apps[i].zipcode]])
    IN [i \in DOMAIN machines |->
           [machine |-> machines[i],
            quantity |-> SumQuantity(SelectSeq(apps,
                LAMBDA l : zipcode_machine[l.zipcode] = machines[i]))]]

\* StoreMachine taking the last, not the first, entry of maximal quantity
StoreMachine_LastMax(store_name, data, zipcode_machine, machine_loads) ==
    LET mq == MachineQuantities(store_name, data, zipcode_machine)
    IN IF mq = <<>>
       THEN MinLoadMachine(machine_loads)
       ELSE mq[CHOOSE i \in DOMAIN mq :
                  /\ \A j \in DOMAIN mq : mq[j].quantity <= mq[i].quantity
                  /\ \A j \in (i + 1)..Len(mq) : mq[j].quantity < mq[i].quantity].machine

\* max(machine_quantities.items(), key=lambda x: x[1])[0], or the least
\* loaded machine when the store has no entry
StoreMachine(store_name, data, zipcode_machine, machine_loads) ==
    LET mq == MachineQuantities(store_name, data, zipcode_machine)
    IN IF mq = <<>>
       THEN MinLoadMachine(machine_loads)
       ELSE mq[FirstMaxIndex([i \in DOMAIN mq |-> mq[i].quantity])].machine

create_machine_schedule_by_zipcode(data, num) ==
    LET st == AssignZipcodes(EmptyMachines(num), SortedZipcodes(data))
        lines == AllLines(data)
        stores == Distinct([i \in DOMAIN lines |-> lines[i].store_name])
    IN [store_machine |->
            [i \in DOMAIN stores |->
                [store |-> stores[i],
                 machine |-> StoreMachine(stores[i], data, st.zipcode_machine, st.machine_loads)]],
        machine_loads |-> st.machine_loads,
        zipcode_machine |-> st.zipcode_machine]


\* ------------------------------------------------- analyze_common_copies
NameIdx(s) == CHOOSE i \in DOMAIN NameOrder : NameOrder[i] = s

\* tuple(sorted([store1, store2]))
SortedPair(a, b) == IF NameIdx(a) <= NameIdx(b) THEN <<a, b>> ELSE <<b, a>>

\* the pairs store_names[i], store_names[i+1:] of one zip code
PairsOfZip(info) ==
    LET n == Len(info.stores)
        nm(i) == info.stores[i].store_name
    IN Flatten([i \in 1..n |-> [j \in 1..(n - i) |-> SortedPair(nm(i), nm(i + j))]])

analyze_common_copies(data) ==
    LET pairs == Flatten([i \in DOMAIN data |-> PairsOfZip(data[i])])
        keys == Distinct(pairs)
    IN [i \in DOMAIN keys |->
           [pair |-> keys[i],
            count |-> Cardinality({j \in DOMAIN pairs : pairs[j] = keys[i]})]]

\* ------------------------------------------------ create_machine_schedule
\* iteration of a set of store names under the order set_order
IterSet(S, set_order) == SelectSeq(set_order, LAMBDA x : x \in S)

\* common_copies.get(tuple(sorted([store, other])), 0)
PairCount(common_copies, a, b) ==
    LET hit == {i \in DOMAIN common_copies : common_copies[i].pair = SortedPair(a, b)}
    IN IF hit = {} THEN 0 ELSE common_copies[CHOOSE i \in hit : TRUE].count

StoreGraph(common_copies, s) ==
    {p[2] : p \in {common_copies[i].pair : i \in {j \in DOMAIN common_copies : common_copies[j].pair[1] = s}}}
    \cup
    {p[1] : p \in {common_copies[i].pair : i \in {j \in DOMAIN common_copies : common_copies[j].pair[2] = s}}}

PairStores(common_copies) ==
    UNION {{common_copies[i].pair[1], common_copies[i].pair[2]} : i \in DOMAIN common_copies}

Commonality(common_copies, s) ==
    LET conn == IterSet(StoreGraph(common_copies, s), NameOrder)
    IN SumSeq([i \in DOMAIN conn |-> PairCount(common_copies, s, conn[i])])

IsAssigned(machine_assignments, s) ==
    \E i \in DOMAIN machine_assignments : machine_assignments[i].store = s

MachineOf(machine_assignments, s) ==
    machine_assignments[CHOOSE i \in DOMAIN machine_assignments : machine_assignments[i].store = s].machine

\* machine_assignments[store] = m; machine_loads[m - 1] += 1
PutStore(st, s, m) ==
    [machine_assignments |-> Append(st.machine_assignments, [store |-> s, machine |-> m]),
     machine_loads |-> [st.machine_loads EXCEPT ![m] = @ + 1]]

\* the loop over related_stores, with its break at 1.2 times the mean load
RECURSIVE PlaceRelated(_, _, _)
PlaceRelated(st, m, related) ==
    IF related = <<>> THEN st
    ELSE IF IsAssigned(st.machine_assignments, Head(related))
    THEN PlaceRelated(st, m, Tail(related))
    ELSE IF 10 * Len(st.machine_loads) * st.machine_loads[m] >= 12 * SumSeq(st.machine_loads)
    THEN st
    ELSE PlaceRelated(PutStore(st, Head(related), m), m, Tail(related))

\* one iteration of the loop over sorted_stores
PlaceStore(st, s, common_copies, set_order) ==
    IF IsAssigned(st.machine_assignments, s) THEN st
    ELSE LET m == MinLoadMachine(st.machine_loads)
             rel == IterSet(StoreGraph(common_copies, s), set_order)
             related == StableSort(rel, [i \in DOMAIN rel |-> 0 - PairCount(common_copies, s, rel[i])])
         IN PlaceRelated(PutStore(st, s, m), m, related)

RECURSIVE PlaceStores(_, _, _, _)
PlaceStores(st, stores, common_copies, set_order) ==
    IF stores = <<>> THEN st
    ELSE PlaceStores(PlaceStore(st, Head(stores), common_copies, set_order),
                     Tail(stores), common_copies, set_order)

\* the loop "Assign any remaining stores"
RECURSIVE PlaceRemaining(_, _)
PlaceRemaining(st, stores) ==
    IF stores = <<>> THEN st
    ELSE IF IsAssigned(st.machine_assignments, Head(stores))
    THEN PlaceRemaining(st, Tail(stores))
    ELSE PlaceRemaining(PutStore(st, Head(stores), MinLoadMachine(st.machine_loads)), Tail(stores))

create_machine_schedule(common_copies, num, set_order) ==
    LET all_stores == IterSet(PairStores(common_copies), set_order)
        sorted_stores == StableSort(all_stores,
            [i \in DOMAIN all_stores |-> 0 - Commonality(common_copies, all_stores[i])])
        st0 == [machine_assignments |-> <<>>, machine_loads |-> Filled(num, 0)]
    IN PlaceRemaining(PlaceStores(st0, sorted_stores, common_copies, set_order), all_stores)


\* -------------------------------------------------------- process_pdf_file
\* mail_dates.get(zipcode, ""): mail maps a zip code the table does not list
\* to ""
MailDateOf(mail, zipcode) == mail[zipcode]

\* the keys of zipcode_by_date / data_by_date / store_appearances_by_date
DateKeys(data, mail) == Distinct([i \in DOMAIN data |-> MailDateOf(mail, data[i].zipcode)])

\* data_by_date[mail_date]
DateData(data, mail, mail_date) ==
    SelectSeq(data, LAMBDA r : MailDateOf(mail, r.zipcode) = mail_date)

\* MakeAssignment with total_quantity taken from the first appearance alone
MakeAssignment_FirstQuantity(store, apps, mail_date) ==
    [store |-> store,
     zip_codes |-> [i \in DOMAIN apps |-> apps[i].zipcode],
     mail_date |-> mail_date,
     zip_code_count |-> Len(apps),
     total_quantity |-> apps[1].quantity]

\* MakeAssignment counting each zip code once
MakeAssignment_DistinctCount(store, apps, mail_date) ==
    [store |-> store,
     zip_codes |-> [i \in DOMAIN apps |-> apps[i].zipcode],
     mail_date |-> mail_date,
     zip_code_count |-> Cardinality({apps[i].zipcode : i \in DOMAIN apps}),
     total_quantity |-> SumQuantity(apps)]

MakeAssignment(store, apps, mail_date) ==
    [store |-> store,
     zip_codes |-> [i \in DOMAIN apps |-> apps[i].zipcode],
     mail_date |-> mail_date,
     zip_code_count |-> Len(apps),
     total_quantity |-> SumQuantity(apps)]

TotalQuantity(assignments) ==
    SumSeq([i \in DOMAIN assignments |-> assignments[i].total_quantity])

\* ---- by_zipcode: one mail date
\* store_to_zipcodes[store]: the appearances of the store in zip codes of the
\* machine the store was given
StoreToZipcodes(store, machine, date_data, zipcode_machine) ==
    SelectSeq(AllLines(date_data),
        LAMBDA l : l.store_name = store /\ zipcode_machine[l.zipcode] = machine)

\* the Assignments the loop over day_assignments appends to machine m
DayAssignments(m, date_data, mail_date, day) ==
    LET mine == SelectSeq(day.store_machine,
            LAMBDA e : e.machine = m
                /\ StoreToZipcodes(e.store, m, date_data, day.zipcode_machine) # <<>>)
    IN [i \in DOMAIN mine |->
           MakeAssignment(mine[i].store,
               StoreToZipcodes(mine[i].store, m, date_data, day.zipcode_machine), mail_date)]

\* ---- by_store
StoresOfDate(data, mail, mail_date) ==
    LET lines == AllLines(DateData(data, mail, mail_date))
    IN Distinct([i \in DOMAIN lines |-> lines[i].store_name])

\* store_appearances_by_date[mail_date][store]
Appearances(data, mail, mail_date, store) ==
    SelectSeq(AllLines(DateData(data, mail, mail_date)), LAMBDA l : l.store_name = store)

StoreTotalQuantities(data, mail, dates) ==
    LET keys == Distinct(Flatten([i \in DOMAIN dates |-> StoresOfDate(data, mail, dates[i])]))
    IN [i \in DOMAIN keys |->
           [store |-> keys[i],
            quantity |-> SumQuantity(SelectSeq(AllLines(data), LAMBDA l : l.store_name = keys[i]))]]

\* sorted(..., key=lambda x: x[1], reverse=True) of (store, quantity) items
SortByQuantity(items) == StableSort(items, [i \in DOMAIN items |-> 0 - items[i].quantity])

\* AssignByQuantity with the index of the least loaded machine taken for its id
AssignByQuantity_ListIndex(st, item) ==
    LET min_load_machine == MinLoadMachine(st.current_machine_loads)
    IN [rebalanced_assignments |->
            Append(st.rebalanced_assignments,
                   [store |-> item.store, machine |-> min_load_machine - 1]),
        current_machine_loads |->
            [st.current_machine_loads EXCEPT ![min_load_machine] = @ + item.quantity]]

\* one iteration of the loop over sorted_stores
AssignByQuantity(st, item) ==
    LET min_load_machine == MinLoadMachine(st.current_machine_loads)
    IN [rebalanced_assignments |->
            Append(st.rebalanced_assignments, [store |-> item.store, machine |-> min_load_machine]),
        current_machine_loads |->
            [st.current_machine_loads EXCEPT ![min_load_machine] = @ + item.quantity]]

RECURSIVE AssignAllByQuantity(_, _)
AssignAllByQuantity(st, items) ==
    IF items = <<>> THEN st
    ELSE AssignAllByQuantity(AssignByQuantity(st, Head(items)), Tail(items))

RebalancedAssignments(store_total_quantities, num) ==
    AssignAllByQuantity(
        [rebalanced_assignments |-> <<>>, current_machine_loads |-> Filled(num, 0)],
        SortByQuantity(store_total_quantities)).rebalanced_assignments

\* StoreAssignments with the loop over sorted_mail_dates left after a store's
\* first mail date
StoreAssignments_FirstDateOnly(m, data, mail, dates, assignments) ==
    Flatten([d \in DOMAIN dates |->
        LET mine == SelectSeq(assignments,
                LAMBDA e : /\ e.machine = m
                           /\ Appearances(data, mail, dates[d], e.store) # <<>>
                           /\ \A c \in 1..(d - 1) :
                                 Appearances(data, mail, dates[c], e.store) = <<>>)
        IN [i \in DOMAIN mine |->
               MakeAssignment(mine[i].store,
                   Appearances(data, mail, dates[d], mine[i].store), dates[d])]])

\* the Assignments the loops over sorted_mail_dates and machine_assignments
\* append to machine m
StoreAssignments(m, data, mail, dates, assignments) ==
    Flatten([d \in DOMAIN dates |->
        LET mine == SelectSeq(assignments,
                LAMBDA e : e.machine = m /\ Appearances(data, mail, dates[d], e.store) # <<>>)
        IN [i \in DOMAIN mine |->
               MakeAssignment(mine[i].store,
                   Appearances(data, mail, dates[d], mine[i].store), dates[d])]])

ZipcodeMachineMapping(data, assignments) ==
    [z \in {data[i].zipcode : i \in DOMAIN data} |->
        {MachineOf(assignments, l.store_name) :
            l \in Range(SelectSeq(AllLines(data), LAMBDA x : x.zipcode = z))}]

\* ---- post-hoc rebalancing
\* load > avg_quantity * 1.3, with avg_quantity = total / num
Overloaded(load, total, num) == 10 * num * load > 13 * total

\* load < avg_quantity * 0.7
Underloaded(load, total, num) == 10 * num * load < 7 * total

\* MoveAccepted with the lower limit put on new_dest_load
MoveAccepted_LowerOnDest(new_src_load, new_dest_load) ==
    /\ 10 * new_dest_load >= 7 * new_src_load
    /\ 10 * new_src_load <= 13 * new_dest_load

\* MoveAccepted without the lower limit on new_src_load
MoveAccepted_NoLowerBound(new_src_load, new_dest_load) ==
    10 * new_src_load <= 13 * new_dest_load

\* new_src_load >= new_dest_load * 0.7 and new_src_load <= new_dest_load * 1.3
MoveAccepted(new_src_load, new_dest_load) ==
    /\ 10 * new_src_load >= 7 * new_dest_load
    /\ 10 * new_src_load <= 13 * new_dest_load

SetMachine(assignments, store, m) ==
    [i \in DOMAIN assignments |->
        IF assignments[i].store = store
        THEN [store |-> store, machine |-> m]
        ELSE assignments[i]]

\* the loop over underloaded_machines for one store, left at the first move
RECURSIVE TryTargets(_, _, _, _)
TryTargets(st, item, src, targets) ==
    IF targets = <<>> THEN st
    ELSE LET new_src_load == st.loads[src] - item.quantity
             new_dest_load == st.loads[Head(targets)] + item.quantity
         IN IF MoveAccepted(new_src_load, new_dest_load)
            THEN [assignments |-> SetMachine(st.assignments, item.store, Head(targets)),
                  loads |-> [st.loads EXCEPT ![src] = new_src_load,
                                             ![Head(targets)] = new_dest_load]]
            ELSE TryTargets(st, item, src, Tail(targets))

\* the loop over stores_to_consider, left once no load exceeds 1.3 times the
\* mean
RECURSIVE MoveStores(_, _, _, _, _)
MoveStores(st, items, src, targets, total) ==
    IF items = <<>> THEN st
    ELSE LET st1 == TryTargets(st, Head(items), src, targets)
         IN IF ~Overloaded(MaxOf(st1.loads), total, Len(st1.loads))
            THEN st1
            ELSE MoveStores(st1, Tail(items), src, targets, total)

\* store_total_quantities.get(store, 0)
QuantityOf(store_total_quantities, store) ==
    LET hit == {i \in DOMAIN store_total_quantities : store_total_quantities[i].store = store}
    IN IF hit = {} THEN 0 ELSE store_total_quantities[CHOOSE i \in hit : TRUE].quantity

StoresToConsider(assignments, store_total_quantities, m) ==
    LET mine == SelectSeq(assignments, LAMBDA e : e.machine = m)
    IN SortByQuantity([i \in DOMAIN mine |->
           [store |-> mine[i].store,
            quantity |-> QuantityOf(store_total_quantities, mine[i].store)]])

\* the loop over overloaded_machines
RECURSIVE RebalanceMachines(_, _, _, _, _)
RebalanceMachines(st, overloaded, targets, store_total_quantities, total) ==
    IF overloaded = <<>> THEN st
    ELSE RebalanceMachines(
            MoveStores(st,
                StoresToConsider(st.assignments, store_total_quantities, Head(overloaded)),
                Head(overloaded), targets, total),
            Tail(overloaded), targets, store_total_quantities, total)

PostHoc(assignments, loads, store_total_quantities) ==
    LET num == Len(loads)
        total == SumSeq(loads)
        machines == [m \in 1..num |-> m]
        overloaded == SelectSeq(machines, LAMBDA m : Overloaded(loads[m], total, num))
        underloaded == SelectSeq(machines, LAMBDA m : Underloaded(loads[m], total, num))
        st == [assignments |-> assignments, loads |-> loads]
    IN IF Overloaded(MaxOf(loads), total, num)
       THEN RebalanceMachines(st, overloaded, underloaded, store_total_quantities, total)
       ELSE st


\* ---- run sequence
\* 2 * calculate_store_overlap(store1, store2)
StoreOverlapNum(store1, store2) ==
    LET inserts1 == {store1.store}
        inserts2 == {store2.store}
        overlap == Cardinality(inserts1 \cap inserts2)
        change_cost == Cardinality((inserts1 \ inserts2) \cup (inserts2 \ inserts1))
    IN 2 * overlap - change_cost

RemoveAt(s, i) == SubSeq(s, 1, i - 1) \o SubSeq(s, i + 1, Len(s))

\* the while loop taking the last of the candidates of highest score
RECURSIVE Walk_LastBest(_, _)
Walk_LastBest(sorted_date_assignments, remaining) ==
    IF remaining = <<>> THEN sorted_date_assignments
    ELSE LET current == sorted_date_assignments[Len(sorted_date_assignments)]
             i == CHOOSE j \in DOMAIN remaining : \A k \in DOMAIN remaining :
                      \/ StoreOverlapNum(current, remaining[k]) < StoreOverlapNum(current, remaining[j])
                      \/ StoreOverlapNum(current, remaining[k]) = StoreOverlapNum(current, remaining[j])
                         /\ k <= j
         IN Walk_LastBest(Append(sorted_date_assignments, remaining[i]), RemoveAt(remaining, i))

\* the while loop over remaining
RECURSIVE Walk(_, _)
Walk(sorted_date_assignments, remaining) ==
    IF remaining = <<>> THEN sorted_date_assignments
    ELSE LET current == sorted_date_assignments[Len(sorted_date_assignments)]
             i == FirstMaxIndex([j \in DOMAIN remaining |-> StoreOverlapNum(current, remaining[j])])
         IN Walk(Append(sorted_date_assignments, remaining[i]), RemoveAt(remaining, i))

\* the walk started from the first assignment of the list
SortDateAssignments_FirstListed(assignments) ==
    IF Len(assignments) <= 1 THEN assignments
    ELSE Walk(<<assignments[1]>>, RemoveAt(assignments, 1))

SortDateAssignments(assignments) ==
    IF Len(assignments) <= 1 THEN assignments
    ELSE LET i == FirstMaxIndex([j \in DOMAIN assignments |-> assignments[j].total_quantity])
         IN Walk(<<assignments[i]>>, RemoveAt(assignments, i))

\* sorted_assignments over the mail dates that ordered_days names
SortedAssignments_OrderedDays(assignments, dates) ==
    Flatten([d \in DOMAIN dates |->
        IF DayKey(dates[d]) < Len(ordered_days)
        THEN SortDateAssignments(SelectSeq(assignments, LAMBDA a : a.mail_date = dates[d]))
        ELSE <<>>])

\* sorted_assignments of one machine
SortedAssignments(assignments, dates) ==
    Flatten([d \in DOMAIN dates |->
        SortDateAssignments(SelectSeq(assignments, LAMBDA a : a.mail_date = dates[d]))])

\* ---- machine_loads_by_date
\* machine_loads_by_date adding up total_quantity
LoadsByDate_Quantities(schedule, num) ==
    LET present == UNION {{schedule[m][i].mail_date : i \in DOMAIN schedule[m]} : m \in 1..num}
    IN [d \in present |->
           [m \in 1..num |->
               LET mine == SelectSeq(schedule[m], LAMBDA a : a.mail_date = d)
               IN SumSeq([i \in DOMAIN mine |-> mine[i].total_quantity])]]

LoadsByDate(schedule, num) ==
    LET present == UNION {{schedule[m][i].mail_date : i \in DOMAIN schedule[m]} : m \in 1..num}
    IN [d \in present |->
           [m \in 1..num |->
               LET mine == SelectSeq(schedule[m], LAMBDA a : a.mail_date = d)
               IN SumSeq([i \in DOMAIN mine |-> mine[i].zip_code_count])]]

\* ---- the final filter of by_zipcode
\* machine_zipcodes keyed by the zero-based index of the machine
MachineZipcodes_ZeroBased(zsched, m) ==
    {z \in DOMAIN zsched : Len(zsched[z].machines) > 0 /\ zsched[z].machines[1] - 1 = m}

MachineZipcodes(zsched, m) ==
    {z \in DOMAIN zsched : Len(zsched[z].machines) > 0 /\ zsched[z].machines[1] = m}

FilteredAssignments(assignments, allowed_zipcodes) ==
    LET filt(a) == SelectSeq(a.zip_codes, LAMBDA z : z \in allowed_zipcodes)
        kept == SelectSeq(assignments, LAMBDA a : filt(a) # <<>>)
    IN [i \in DOMAIN kept |->
           [kept[i] EXCEPT !.zip_codes = filt(kept[i]), !.zip_code_count = Len(filt(kept[i]))]]


\* ------------------------------------------------------------------ state
VARIABLES
    parsed_data,              \* parse_pick_lists(raw_data): the zip records, in order
    mail_dates,               \* get_zip_mail_dates(), read with .get(zipcode, "")
    num_machines,
    scheduling_method,
    pc,                       \* the block of process_pdf_file to run next
    sorted_mail_dates,
    day,                      \* by_zipcode: index of the next mail date
    machine_assignments,      \* by_store: store -> machine, in insertion order
    machine_loads,
    machine_schedule,
    zipcode_schedule,
    machine_total_quantities, \* by_store
    zipcode_machine_mapping,  \* by_store: zip code -> set of machines
    machine_loads_by_date,
    total_load,
    request,                  \* index(): the upload and the form of the POST
    raw_data,                 \* the sections of the text of the uploaded document
    uploads,                  \* UPLOAD_FOLDER: file name -> text of the saved document
    excel_file,               \* machine_schedule.xlsx: <<>> or <<the report written last>>
    clients                   \* the requests in flight, each with its position

vars == <<parsed_data, mail_dates, num_machines, scheduling_method, pc, sorted_mail_dates,
          day, machine_assignments, machine_loads, machine_schedule, zipcode_schedule,
          machine_total_quantities, zipcode_machine_mapping, machine_loads_by_date,
          total_load, request, raw_data, uploads, excel_file, clients>>

StoreLines(t) == [store_name : {NameOrder[1], NameOrder[2]}, quantity : 1..t]

\* the store lists, empty one included, whose quantities sum to t at most
RECURSIVE StoreLists(_)
StoreLists(t) ==
    {<<>>} \cup UNION {{<<l>> \o r : r \in StoreLists(t - l.quantity)} : l \in StoreLines(t)}

\* the sequences of k non-empty store lists whose quantities sum to t at most
RECURSIVE StoreListSeqs(_, _)
StoreListSeqs(k, t) ==
    IF k = 0 THEN {<<>>}
    ELSE UNION {{<<sl>> \o rest : rest \in StoreListSeqs(k - 1, t - SumQuantity(sl))} :
                sl \in StoreLists(t - (k - 1)) \ {<<>>}}

Document(sls) == [i \in DOMAIN sls |-> [zipcode |-> ZipNames[i], stores |-> sls[i]]]

\* what parse_pick_lists can return: every record has a non-empty store list.
\* Store names are interchangeable: the first line of a document names the
\* first store.
ParsedDocuments ==
    UNION {{Document(sls) :
                sls \in {x \in StoreListSeqs(k, MaxTotalQuantity) :
                            k > 0 => x[1][1].store_name = NameOrder[1]}} :
           k \in 0..Len(ZipNames)}

\* the documents of single-line sections of quantity 1
OneLineDocuments ==
    UNION {{Document(sls) :
                sls \in [1..k -> {<<[store_name |-> NameOrder[1], quantity |-> 1]>>}]} :
           k \in 1..Len(ZipNames)}

\* the documents of one or two sections that list every store between them,
\* each line of quantity 1
ThreeStoreDocuments ==
    LET lists == {SelectSeq([i \in DOMAIN NameOrder |->
                                [store_name |-> NameOrder[i], quantity |-> 1]],
                            LAMBDA l : l.store_name \in S) :
                     S \in (SUBSET StoreNames) \ {{}}}
    IN UNION {{Document(sls) :
                 sls \in {x \in [1..k -> lists] :
                             {l.store_name : l \in Range(Flatten(x))} = StoreNames}} :
              k \in 1..2}

\* the documents of one section that lists the three stores once each, in
\* name order, one of them with quantity 2
UnevenStoreDocuments ==
    {Document(<<[i \in DOMAIN NameOrder |->
                   [store_name |-> NameOrder[i], quantity |-> IF i = k THEN 2 ELSE 1]]>>) :
        k \in DOMAIN NameOrder}

\* the worked example of the specification
ExampleDocument ==
    <<[zipcode |-> "11501",
       stores |-> <<[store_name |-> "STORE A", quantity |-> 100],
                    [store_name |-> "STORE B", quantity |-> 50]>>],
      [zipcode |-> "11801",
       stores |-> <<[store_name |-> "STORE A", quantity |-> 80]>>]>>

ZipcodesOf(data) == {data[i].zipcode : i \in DOMAIN data}

Unset == <<>>

Init ==
    /\ \/ /\ parsed_data \in ParsedDocuments
          /\ mail_dates \in [ZipcodesOf(parsed_data) -> TableLabels]
       \/ /\ parsed_data \in OneLineDocuments
          /\ mail_dates \in [ZipcodesOf(parsed_data) -> MailLabels]
       \/ /\ parsed_data \in ThreeStoreDocuments
          /\ mail_dates \in [ZipcodesOf(parsed_data) -> TableLabels]
       \/ /\ parsed_data \in UnevenStoreDocuments
          /\ mail_dates \in [ZipcodesOf(parsed_data) -> TableLabels]
       \/ /\ parsed_data = ExampleDocument
          /\ mail_dates \in {[z \in ZipcodesOf(parsed_data) |-> d] : d \in MailLabels}
    /\ num_machines \in 1..MaxMachines
    /\ scheduling_method \in {"by_store", "by_zipcode"}
    /\ pc = "start"
    /\ sorted_mail_dates = Unset
    /\ day = 0
    /\ machine_assignments = Unset
    /\ machine_loads = Unset
    /\ machine_schedule = Unset
    /\ zipcode_schedule = Unset
    /\ machine_total_quantities = Unset
    /\ zipcode_machine_mapping = Unset
    /\ machine_loads_by_date = Unset
    /\ total_load = 0
    /\ request = Unset
    /\ raw_data = Unset
    /\ uploads = Unset
    /\ excel_file = Unset
    /\ clients = Unset

\* the files of the application directory and the requests in flight
Files == <<uploads, excel_file, clients>>

Inputs == <<parsed_data, mail_dates, num_machines, scheduling_method, request, raw_data, Files>>

\* ---------------------------------------------------------------- actions
\* lines 601-621: the by_zipcode branch up to its loop over the mail dates
StartByZipcode ==
    /\ pc = "start"
    /\ scheduling_method = "by_zipcode"
    /\ machine_schedule' = [m \in 1..num_machines |-> <<>>]
    /\ zipcode_schedule' = <<>>
    /\ machine_loads' = [m \in 1..num_machines |-> 0]
    /\ sorted_mail_dates' = SortMailDates(DateKeys(parsed_data, mail_dates))
    /\ day' = 1
    /\ pc' = IF DateKeys(parsed_data, mail_dates) = <<>> THEN "run_sequence" ELSE "zip_days"
    /\ UNCHANGED <<Inputs, machine_assignments, machine_total_quantities,
                   zipcode_machine_mapping, machine_loads_by_date, total_load>>

\* ScheduleDay with the machine loads of the earlier mail dates kept as the
\* loads the day's greedy loop starts from
ScheduleDay_KeepLoads ==
    /\ pc = "zip_days"
    /\ LET mail_date == sorted_mail_dates[day]
           date_data == DateData(parsed_data, mail_dates, mail_date)
           st == AssignZipcodes([machine_inserts |-> Filled(num_machines, {}),
                                 machine_loads |-> machine_loads,
                                 zipcode_machine |-> <<>>],
                                SortedZipcodes(date_data))
           lines == AllLines(date_data)
           stores == Distinct([i \in DOMAIN lines |-> lines[i].store_name])
           sched == [store_machine |->
                         [i \in DOMAIN stores |->
                             [store |-> stores[i],
                              machine |-> StoreMachine(stores[i], date_data,
                                              st.zipcode_machine, st.machine_loads)]],
                     zipcode_machine |-> st.zipcode_machine]
           added == [m \in 1..num_machines |-> DayAssignments(m, date_data, mail_date, sched)]
       IN /\ zipcode_schedule' =
                [z \in DOMAIN sched.zipcode_machine |->
                    [machines |-> <<sched.zipcode_machine[z]>>, mail_date |-> mail_date]]
                @@ zipcode_schedule
          /\ machine_schedule' = [m \in 1..num_machines |-> machine_schedule[m] \o added[m]]
          /\ machine_loads' =
                [m \in 1..num_machines |-> machine_loads[m] + TotalQuantity(added[m])]
    /\ day' = day + 1
    /\ pc' = IF day = Len(sorted_mail_dates) THEN "run_sequence" ELSE "zip_days"
    /\ UNCHANGED <<Inputs, sorted_mail_dates, machine_assignments, machine_total_quantities,
                   zipcode_machine_mapping, machine_loads_by_date, total_load>>

\* lines 624-674: one iteration of the loop over sorted_mail_dates
ScheduleDay ==
    /\ pc = "zip_days"
    /\ LET mail_date == sorted_mail_dates[day]
           date_data == DateData(parsed_data, mail_dates, mail_date)
           sched == create_machine_schedule_by_zipcode(date_data, num_machines)
           added == [m \in 1..num_machines |-> DayAssignments(m, date_data, mail_date, sched)]
       IN /\ zipcode_schedule' =
                [z \in DOMAIN sched.zipcode_machine |->
                    [machines |-> <<sched.zipcode_machine[z]>>, mail_date |-> mail_date]]
                @@ zipcode_schedule
          /\ machine_schedule' = [m \in 1..num_machines |-> machine_schedule[m] \o added[m]]
          /\ machine_loads' =
                [m \in 1..num_machines |-> machine_loads[m] + TotalQuantity(added[m])]
    /\ day' = day + 1
    /\ pc' = IF day = Len(sorted_mail_dates) THEN "run_sequence" ELSE "zip_days"
    /\ UNCHANGED <<Inputs, sorted_mail_dates, machine_assignments, machine_total_quantities,
                   zipcode_machine_mapping, machine_loads_by_date, total_load>>

\* the orders in which a set S can be iterated
Orders(S) == {f \in [1..Cardinality(S) -> S] : \A x \in S : \E i \in DOMAIN f : f[i] = x}

MachineOrders == [n \in 1..MaxMachines |-> Orders(1..n)]

\* lines 676-705: the by_store branch up to the quantity pass; the sets of
\* store names create_machine_schedule iterates are iterated in any order
AffinityPass ==
    /\ pc = "start"
    /\ scheduling_method # "by_zipcode"
    /\ sorted_mail_dates' = SortMailDates(DateKeys(parsed_data, mail_dates))
    /\ \E set_order \in Orders({l.store_name : l \in Range(AllLines(parsed_data))}) :
          LET r == create_machine_schedule(analyze_common_copies(parsed_data),
                                           num_machines, set_order)
          IN /\ machine_assignments' = r.machine_assignments
             /\ machine_loads' = r.machine_loads
    /\ machine_schedule' = [m \in 1..num_machines |-> <<>>]
    /\ zipcode_machine_mapping' = <<>>
    /\ machine_total_quantities' = [m \in 1..num_machines |-> 0]
    /\ pc' = "quantity"
    /\ UNCHANGED <<Inputs, day, zipcode_schedule, machine_loads_by_date, total_load>>

\* UseRebalanced keeping the machine of the affinity pass for every store the
\* affinity pass placed
UseRebalanced_KeepAffinity(affinity_assignments, rebalanced_assignments) ==
    [i \in DOMAIN rebalanced_assignments |->
        [store |-> rebalanced_assignments[i].store,
         machine |-> IF IsAssigned(affinity_assignments, rebalanced_assignments[i].store)
                     THEN MachineOf(affinity_assignments, rebalanced_assignments[i].store)
                     ELSE rebalanced_assignments[i].machine]]

\* line 729: machine_assignments = rebalanced_assignments
UseRebalanced(affinity_assignments, rebalanced_assignments) == rebalanced_assignments

\* lines 707-757: the quantity pass and the Assignments of every mail date
QuantityPass ==
    /\ pc = "quantity"
    /\ LET assignments ==
              UseRebalanced(machine_assignments,
                  RebalancedAssignments(
                      StoreTotalQuantities(parsed_data, mail_dates, sorted_mail_dates),
                      num_machines))
           added == [m \in 1..num_machines |->
                        StoreAssignments(m, parsed_data, mail_dates, sorted_mail_dates,
                                         assignments)]
       IN /\ machine_assignments' = assignments
          /\ machine_schedule' = [m \in 1..num_machines |-> machine_schedule[m] \o added[m]]
          /\ zipcode_machine_mapping' = ZipcodeMachineMapping(parsed_data, assignments)
          /\ machine_total_quantities' =
                [m \in 1..num_machines |->
                    machine_total_quantities[m] + TotalQuantity(added[m])]
    /\ pc' = "posthoc"
    /\ UNCHANGED <<Inputs, sorted_mail_dates, day, machine_loads, zipcode_schedule,
                   machine_loads_by_date, total_load>>

\* lines 759-806: the post-hoc rebalancing pass
PostHocRebalance ==
    /\ pc = "posthoc"
    /\ LET r == PostHoc(machine_assignments, machine_total_quantities,
                        StoreTotalQuantities(parsed_data, mail_dates, sorted_mail_dates))
       IN /\ machine_assignments' = r.assignments
          /\ machine_total_quantities' = r.loads
    /\ pc' = "zipcode_schedule"
    /\ UNCHANGED <<Inputs, sorted_mail_dates, day, machine_loads, machine_schedule,
                   zipcode_schedule, zipcode_machine_mapping, machine_loads_by_date,
                   total_load>>

\* list(machines) of a set of machine ids iterated in the order machine_order
ListOfMachines(machines, machine_order) == SelectSeq(machine_order, LAMBDA m : m \in machines)

\* lines 808-818: zipcode_schedule and machine_loads of by_store
ZipcodeScheduleByStore ==
    /\ pc = "zipcode_schedule"
    /\ \E machine_order \in MachineOrders[num_machines] :
          zipcode_schedule' =
              [z \in DOMAIN zipcode_machine_mapping |->
                  [machines |-> ListOfMachines(zipcode_machine_mapping[z], machine_order),
                   mail_date |-> MailDateOf(mail_dates, z)]]
    /\ machine_loads' = machine_total_quantities
    /\ pc' = "run_sequence"
    /\ UNCHANGED <<Inputs, sorted_mail_dates, day, machine_assignments, machine_schedule,
                   machine_total_quantities, zipcode_machine_mapping, machine_loads_by_date,
                   total_load>>

\* lines 820-889: machine_loads_by_date, total_load and the run sequence of
\* every machine; by_store returns here (lines 919-927)
RunSequence ==
    /\ pc = "run_sequence"
    /\ machine_loads_by_date' = LoadsByDate(machine_schedule, num_machines)
    /\ total_load' = SumSeq(machine_loads)
    /\ machine_schedule' =
          [m \in 1..num_machines |-> SortedAssignments(machine_schedule[m], sorted_mail_dates)]
    /\ pc' = IF scheduling_method = "by_zipcode" THEN "filter" ELSE "done"
    /\ UNCHANGED <<Inputs, sorted_mail_dates, day, machine_assignments, machine_loads,
                   zipcode_schedule, machine_total_quantities, zipcode_machine_mapping>>

\* lines 891-927: by_zipcode keeps the zip codes its machine owns, and returns
FilterZipcodes ==
    /\ pc = "filter"
    /\ machine_schedule' =
          [m \in 1..num_machines |->
              FilteredAssignments(machine_schedule[m], MachineZipcodes(zipcode_schedule, m))]
    /\ pc' = "done"
    /\ UNCHANGED <<Inputs, sorted_mail_dates, day, machine_assignments, machine_loads,
                   zipcode_schedule, machine_total_quantities, zipcode_machine_mapping,
                   machine_loads_by_date, total_load>>

Next ==
    \/ StartByZipcode
    \/ ScheduleDay
    \/ AffinityPass
    \/ QuantityPass
    \/ PostHocRebalance
    \/ ZipcodeScheduleByStore
    \/ RunSequence
    \/ FilterZipcodes

Spec == Init /\ [][Next]_vars

\* ------------------------------------------------------ the upload request
\* longest list of lines of a section, its table header apart
MaxLines == 2

HeaderLine == [kind |-> "header", store_name |-> "", quantity |-> 0]

LineTokens ==
    {HeaderLine,
     [kind |-> "end", store_name |-> "", quantity |-> 0],
     [kind |-> "skip", store_name |-> "", quantity |-> 0],
     [kind |-> "junk", store_name |-> "", quantity |-> 0],
     [kind |-> "row3", store_name |-> NameOrder[1], quantity |-> 1],
     [kind |-> "row2", store_name |-> NameOrder[2], quantity |-> 1]}

Markers == {"none", "nodigits", ZipNames[1], ZipNames[2]}

\* the lists of n lines at most, alone or after a table header
LineLists(n) ==
    LET free == UNION {[1..k -> LineTokens] : k \in 0..n}
    IN free \cup {<<HeaderLine>> \o l : l \in free}

\* the line lists of the sections of two-section documents: a table of one
\* row, of a row after a failing line, of a failing line alone
ShortTables ==
    {<<HeaderLine, t>> : t \in {x \in LineTokens : x.kind \in {"row3", "junk"}}}
    \cup {<<HeaderLine, [kind |-> "junk", store_name |-> "", quantity |-> 0],
            [kind |-> "row2", store_name |-> NameOrder[2], quantity |-> 1]>>}

OneSectionDocuments ==
    {<<[marker |-> m, lines |-> l]>> : m \in Markers, l \in LineLists(MaxLines)}

TwoSectionDocuments ==
    {<<[marker |-> m1, lines |-> l1], [marker |-> m2, lines |-> l2]>> :
        m1 \in Markers, m2 \in Markers, l1 \in ShortTables, l2 \in ShortTables}

\* the text of the form field "machines": decimal digits, a sign, a letter
MachineTexts == {<<"0">>, <<"1">>, <<"2">>, <<"-", "1">>, <<"x">>, <<>>}

DigitChars == <<"0", "1", "2", "3", "4", "5", "6", "7", "8", "9">>

IsDigit(c) == \E i \in DOMAIN DigitChars : DigitChars[i] = c

DigitOf(c) == (CHOOSE i \in DOMAIN DigitChars : DigitChars[i] = c) - 1

\* the value of the digits text[from..n]
RECURSIVE DigitsValue(_, _, _)
DigitsValue(text, from, n) ==
    IF n < from THEN 0 ELSE 10 * DigitsValue(text, from, n - 1) + DigitOf(text[n])

\* int(text) raises ValueError
IntRaises(text) ==
    LET from == IF text # <<>> /\ text[1] = "-" THEN 2 ELSE 1
    IN \/ Len(text) < from
       \/ \E i \in from..Len(text) : ~IsDigit(text[i])

\* int(text)
IntOf(text) ==
    IF text[1] = "-" THEN 0 - DigitsValue(text, 2, Len(text))
    ELSE DigitsValue(text, 1, Len(text))

\* request.form.get('machines', 3)
MachinesField(form) == IF form.has_machines THEN form.machines ELSE <<"3">>

Forms == [has_machines : {TRUE}, machines : MachineTexts,
          scheduling_method : {"by_store", "by_zipcode"}]
         \cup [has_machines : {FALSE}, machines : {<<>>},
               scheduling_method : {"by_store", "by_zipcode"}]

\* the form every document is posted with
PlainForms == {f \in Forms : f.has_machines /\ f.machines = <<"1">>}

\* a POST: without file part ("absent"), with an empty file name ("unnamed"),
\* with a file that is not a PDF ("other"), or with a PDF
RequestInit ==
    /\ \/ /\ request \in [pdf_file : {"pdf"}, form : PlainForms]
          /\ raw_data \in OneSectionDocuments
       \/ /\ request \in [pdf_file : {"pdf"}, form : Forms]
          /\ raw_data \in TwoSectionDocuments \cup {<<>>}
       \/ /\ request \in [pdf_file : {"absent", "unnamed", "other"}, form : PlainForms]
          /\ raw_data = <<>>
    /\ parsed_data = Unset
    /\ mail_dates = Unset
    /\ num_machines = Unset
    /\ scheduling_method = Unset
    /\ pc = "request"
    /\ sorted_mail_dates = Unset
    /\ day = 0
    /\ machine_assignments = Unset
    /\ machine_loads = Unset
    /\ machine_schedule = Unset
    /\ zipcode_schedule = Unset
    /\ machine_total_quantities = Unset
    /\ zipcode_machine_mapping = Unset
    /\ machine_loads_by_date = Unset
    /\ total_load = 0
    /\ uploads = Unset
    /\ excel_file = Unset
    /\ clients = Unset

Engine == <<sorted_mail_dates, day, machine_assignments, machine_loads, machine_schedule,
            zipcode_schedule, machine_total_quantities, zipcode_machine_mapping,
            machine_loads_by_date, total_load>>

\* lines 1109-1131 and 1175-1177: the checks of the upload, and the form
\* fields; a ValueError of int() is caught by the handler (lines 1170-1174)
Index ==
    /\ pc = "request"
    /\ IF request.pdf_file # "pdf" \/ IntRaises(MachinesField(request.form))
       THEN /\ pc' = "flashed"
            /\ UNCHANGED <<num_machines, scheduling_method>>
       ELSE /\ num_machines' = IntOf(MachinesField(request.form))
            /\ scheduling_method' = request.form.scheduling_method
            /\ pc' = "parse"
    /\ UNCHANGED <<parsed_data, mail_dates, request, raw_data, Files, Engine>>

\* lines 1134 and 577-598: process_pdf_file is entered, parses the text and
\* reads the mail-date table
ParseUpload ==
    /\ pc = "parse"
    /\ parsed_data' = parse_pick_lists(raw_data)
    /\ mail_dates' \in [ZipcodesOf(parsed_data') -> TableLabels]
    /\ pc' = "start"
    /\ UNCHANGED <<num_machines, scheduling_method, request, raw_data, Files, Engine>>

\* Raises with the mean load of line 761 taken over the total quantity: a
\* division by zero when no quantity was scheduled
Raises_ZeroTotal ==
    \/ /\ num_machines <= 0
       /\ \/ pc = "zip_days"
          \/ pc = "start" /\ scheduling_method # "by_zipcode"
                          /\ analyze_common_copies(parsed_data) # <<>>
          \/ pc = "quantity" /\ parsed_data # <<>>
          \/ pc = "posthoc"
    \/ pc = "posthoc" /\ SumSeq(machine_total_quantities) = 0

\* the next block of process_pdf_file raises: overlap_scores[0] of an empty
\* list (line 383), min() of an empty list (lines 216 and 724), a division
\* by zero (line 761) or max() of an empty list (line 767)
Raises ==
    /\ num_machines <= 0
    /\ \/ pc = "zip_days"
       \/ pc = "start" /\ scheduling_method # "by_zipcode"
                       /\ analyze_common_copies(parsed_data) # <<>>
       \/ pc = "quantity" /\ parsed_data # <<>>
       \/ pc = "posthoc"

\* a block of process_pdf_file runs to its end
ProcessStep ==
    /\ pc \in {"start", "zip_days", "quantity", "posthoc", "zipcode_schedule",
               "run_sequence", "filter"}
    /\ ~Raises
    /\ Next

\* the exception leaves process_pdf_file
ProcessRaises ==
    /\ pc \in {"start", "zip_days", "quantity", "posthoc"}
    /\ Raises
    /\ pc' = "raised"
    /\ UNCHANGED <<Inputs, Engine>>

\* lines 1137-1168 and 929-1105: the report is written and the results are
\* rendered; next(iter(machine_loads_by_date.values())) raises StopIteration
\* when no Assignment was scheduled (line 1064)
CreateReport ==
    /\ pc = "done"
    /\ pc' = IF DOMAIN machine_loads_by_date = {} THEN "report_raised" ELSE "rendered"
    /\ UNCHANGED <<Inputs, Engine>>

\* lines 1170-1174: the handler flashes the error and redirects
FlashError ==
    /\ pc \in {"raised", "report_raised"}
    /\ pc' = "flashed"
    /\ UNCHANGED <<Inputs, Engine>>

RequestNext ==
    \/ Index
    \/ ParseUpload
    \/ ProcessStep
    \/ ProcessRaises
    \/ CreateReport
    \/ FlashError

RequestSpec == RequestInit /\ [][RequestNext]_vars

\* ------------------------------------------------- the returned Schedule
\* process_pdf_file has returned
Returned == pc = "done"


\* the dict process_pdf_file returns (lines 919-927)
Schedule ==
    [machine_schedule |-> machine_schedule,
     zipcode_schedule |-> zipcode_schedule,
     machine_loads |-> machine_loads,
     machine_loads_by_date |-> machine_loads_by_date,
     total_load |-> total_load,
     zip_code_count |-> Len(parsed_data),
     mail_dates |-> sorted_mail_dates]

\* the sum of the quantities of all store lines of the input
InputQuantity == SumQuantity(AllLines(parsed_data))

Machines == 1..num_machines

\* the Assignments of the returned machine_schedule, each with its machine
ScheduledAssignments ==
    UNION {{[machine |-> m, assignment |-> machine_schedule[m][i]] :
                i \in DOMAIN machine_schedule[m]} : m \in Machines}

\* the loads the Assignments of machine_schedule add up to
ScheduleLoads == [m \in Machines |-> TotalQuantity(machine_schedule[m])]

\* some machine's load exceeds 1.3 times the mean of loads
Unbalanced(loads) == Overloaded(MaxOf(loads), SumSeq(loads), Len(loads))


\* ----------------------------------------------------------------- claims
\* C1: by_store conserves load: once the post-hoc pass has run the machine
\* totals sum to the sum of the quantities of all store lines of the input,
\* and the returned machine_loads and total_load equal that sum.
C1_LoadConservationByStore ==
    scheduling_method = "by_store" =>
        /\ pc = "zipcode_schedule" => SumSeq(machine_total_quantities) = InputQuantity
        /\ Returned => /\ SumSeq(machine_loads) = InputQuantity
                       /\ total_load = InputQuantity

\* a by_store run has returned for an input whose loads made the post-hoc
\* pass run: one machine above 1.3 times the mean, another below 0.7 times
C1_Witness ==
    /\ Returned
    /\ scheduling_method = "by_store"
    /\ Unbalanced(ScheduleLoads)
    /\ \E m \in Machines : Underloaded(ScheduleLoads[m], InputQuantity, num_machines)
    /\ Len(parsed_data) >= 2

\* C2: by_zipcode conserves load: the returned machine_loads sum to the sum
\* of the quantities of all store lines of the input.
C2_LoadConservationByZipcode ==
    (Returned /\ scheduling_method = "by_zipcode") => SumSeq(machine_loads) = InputQuantity

\* C3: by_zipcode containment: every zip code of the input is a key of
\* zipcode_schedule and its machines list has exactly one element, a machine
\* id in 1..num_machines.
C3_ZipcodeContainment ==
    (Returned /\ scheduling_method = "by_zipcode") =>
        \A z \in ZipcodesOf(parsed_data) :
            /\ z \in DOMAIN zipcode_schedule
            /\ Len(zipcode_schedule[z].machines) = 1
            /\ zipcode_schedule[z].machines[1] \in Machines

\* a by_zipcode run has returned with the zip codes of one mail date on two
\* machines and a zip code in the unlabelled bucket
C3_Witness ==
    /\ Returned
    /\ scheduling_method = "by_zipcode"
    /\ \E y, z \in ZipcodesOf(parsed_data) :
          /\ mail_dates[y] = mail_dates[z]
          /\ zipcode_schedule[y].machines # zipcode_schedule[z].machines
    /\ \E z \in ZipcodesOf(parsed_data) : mail_dates[z] = ""

\* C4: by_zipcode, stores inherit their zip code's machine: for every zip
\* code z of mail date d on machine m and every store s listed in z,
\* machine_schedule[m] holds an Assignment of s and d whose zip_codes
\* include z.
C4_StoresInheritZipMachine ==
    (Returned /\ scheduling_method = "by_zipcode") =>
        \A l \in Range(AllLines(parsed_data)) :
            LET m == zipcode_schedule[l.zipcode].machines[1]
            IN \E i \in DOMAIN machine_schedule[m] :
                  /\ machine_schedule[m][i].store = l.store_name
                  /\ machine_schedule[m][i].mail_date = MailDateOf(mail_dates, l.zipcode)
                  /\ l.zipcode \in Range(machine_schedule[m][i].zip_codes)

\* C5: by_store coverage: every store of the input has all its Assignments
\* under one machine id, and has an Assignment for every mail date on which a
\* zip code lists it.
C5_StoreCoverage ==
    (Returned /\ scheduling_method = "by_store") =>
        \A l \in Range(AllLines(parsed_data)) :
            /\ Cardinality({sa.machine : sa \in
                    {x \in ScheduledAssignments : x.assignment.store = l.store_name}}) = 1
            /\ \E sa \in ScheduledAssignments :
                  /\ sa.assignment.store = l.store_name
                  /\ sa.assignment.mail_date = MailDateOf(mail_dates, l.zipcode)

\* a by_store run has returned with Assignments on two machines and a store
\* that has Assignments on two mail dates
C5_Witness ==
    /\ Returned
    /\ scheduling_method = "by_store"
    /\ Cardinality({sa.machine : sa \in ScheduledAssignments}) >= 2
    /\ \E a, b \in ScheduledAssignments :
          /\ a.assignment.store = b.assignment.store
          /\ a.assignment.mail_date # b.assignment.mail_date

\* the worked example was scheduled with by_zipcode on two machines
ExampleRun ==
    /\ Returned
    /\ scheduling_method = "by_zipcode"
    /\ parsed_data = ExampleDocument
    /\ num_machines = 2

\* C6 as stated: on the worked example (zip code 11501 with STORE A 100 and
\* STORE B 50, zip code 11801 with STORE A 80, one mail-date bucket, two
\* machines) 11501 is placed before 11801 and both zip codes end on the same
\* machine.
C6_ExampleSameMachine ==
    ExampleRun =>
        /\ SortedZipcodes(parsed_data)[1].zipcode = "11501"
        /\ zipcode_schedule["11801"].machines = zipcode_schedule["11501"].machines

\* C6 amended: on the worked example 11501 is placed before 11801 and takes
\* machine 1, and 11801 ends on the other machine, machine 2.
C6_ExampleOtherMachine ==
    ExampleRun =>
        /\ SortedZipcodes(parsed_data)[1].zipcode = "11501"
        /\ zipcode_schedule["11501"].machines = <<1>>
        /\ zipcode_schedule["11801"].machines = <<2>>

\* the worked example has been scheduled and both its zip codes have a machine
C6_Witness ==
    /\ ExampleRun
    /\ {"11501", "11801"} \subseteq DOMAIN zipcode_schedule

\* C7: post-hoc rebalancing of by_store: when a machine's total exceeds 1.3
\* times the mean before the pass, then after the pass either no machine's
\* total exceeds 1.3 times the mean, or the totals and the store-to-machine
\* map are what they were before the pass.
C7_PostHocOutcome ==
    [][(pc = "posthoc" /\ Unbalanced(machine_total_quantities)) =>
          \/ ~Unbalanced(machine_total_quantities')
          \/ /\ machine_total_quantities' = machine_total_quantities
             /\ machine_assignments' = machine_assignments]_vars

\* the post-hoc pass has run on totals with a machine above 1.3 times the
\* mean, a machine below 0.7 times the mean to move to, and two stores on the
\* overloaded machine
C7_Witness ==
    /\ pc = "zipcode_schedule"
    /\ \E m, u \in Machines :
          /\ Overloaded(machine_total_quantities[m], InputQuantity, num_machines)
          /\ Underloaded(machine_total_quantities[u], InputQuantity, num_machines)
          /\ Len(SelectSeq(machine_assignments, LAMBDA e : e.machine = m)) >= 2

\* ---- the reference run: the engine with every set iterated in one fixed
\* order (store names in the order NameOrder, machine ids ascending)
RefLoads(num, schedule, loads) ==
    [machine_schedule |-> [m \in 1..num |-> SortedAssignments(schedule[m], loads.dates)],
     zipcode_schedule |-> loads.zipcode_schedule,
     machine_loads |-> loads.machine_loads,
     machine_loads_by_date |-> LoadsByDate(schedule, num),
     total_load |-> SumSeq(loads.machine_loads),
     zip_code_count |-> loads.zip_code_count,
     mail_dates |-> loads.dates]

RefByStore(data, mail, num) ==
    LET dates == SortMailDates(DateKeys(data, mail))
        store_total_quantities == StoreTotalQuantities(data, mail, dates)
        assignments == RebalancedAssignments(store_total_quantities, num)
        built == [m \in 1..num |-> StoreAssignments(m, data, mail, dates, assignments)]
        totals == [m \in 1..num |-> TotalQuantity(built[m])]
        mapping == ZipcodeMachineMapping(data, assignments)
    IN RefLoads(num, built,
           [dates |-> dates,
            zip_code_count |-> Len(data),
            machine_loads |-> PostHoc(assignments, totals, store_total_quantities).loads,
            zipcode_schedule |->
                [z \in DOMAIN mapping |->
                    [machines |-> ListOfMachines(mapping[z], [m \in 1..num |-> m]),
                     mail_date |-> MailDateOf(mail, z)]]])

RECURSIVE RefZipDays(_, _, _, _, _)
RefZipDays(acc, data, mail, num, dates) ==
    IF dates = <<>> THEN acc
    ELSE LET date_data == DateData(data, mail, Head(dates))
             sched == create_machine_schedule_by_zipcode(date_data, num)
             added == [m \in 1..num |-> DayAssignments(m, date_data, Head(dates), sched)]
         IN RefZipDays(
                [zipcode_schedule |->
                    [z \in DOMAIN sched.zipcode_machine |->
                        [machines |-> <<sched.zipcode_machine[z]>>, mail_date |-> Head(dates)]]
                    @@ acc.zipcode_schedule,
                 machine_schedule |->
                    [m \in 1..num |-> acc.machine_schedule[m] \o added[m]],
                 machine_loads |->
                    [m \in 1..num |-> acc.machine_loads[m] + TotalQuantity(added[m])]],
                data, mail, num, Tail(dates))

RefByZipcode(data, mail, num) ==
    LET dates == SortMailDates(DateKeys(data, mail))
        days == RefZipDays([zipcode_schedule |-> <<>>,
                            machine_schedule |-> [m \in 1..num |-> <<>>],
                            machine_loads |-> [m \in 1..num |-> 0]],
                           data, mail, num, dates)
        sorted == RefLoads(num, days.machine_schedule,
                      [dates |-> dates,
                       zip_code_count |-> Len(data),
                       machine_loads |-> days.machine_loads,
                       zipcode_schedule |-> days.zipcode_schedule])
    IN [sorted EXCEPT !.machine_schedule =
           [m \in 1..num |->
               FilteredAssignments(sorted.machine_schedule[m],
                                   MachineZipcodes(days.zipcode_schedule, m))]]

\* C8: determinism: for either strategy the returned Schedule is the one the
\* reference run returns on the same parsed records, mail-date map and
\* num_machines, whatever order the run iterated its sets in.
C8_Determinism ==
    Returned =>
        Schedule = IF scheduling_method = "by_zipcode"
                   THEN RefByZipcode(parsed_data, mail_dates, num_machines)
                   ELSE RefByStore(parsed_data, mail_dates, num_machines)

\* the rank the claimed order gives a mail date: MON to SUN, then "" after
\* every labelled bucket
LaterThan(a, b) ==
    \/ a = "" /\ b # ""
    \/ /\ a # "" /\ b # ""
       /\ a \in Range(ordered_days) /\ b \in Range(ordered_days)
       /\ DayKey(a) > DayKey(b)

InMailDayOrder(dates) ==
    \A i, j \in DOMAIN dates : i < j => ~LaterThan(dates[i], dates[j])

\* C9: mail-day ordering: in the returned Schedule every machine's Assignment
\* list is ordered by mail day, MON to SUN with the unlabelled bucket "" after
\* every labelled one, and so is the returned mail_dates list.
C9_MailDayOrdering ==
    Returned =>
        /\ \A m \in Machines :
              InMailDayOrder([i \in DOMAIN machine_schedule[m] |->
                                 machine_schedule[m][i].mail_date])
        /\ InMailDayOrder(sorted_mail_dates)

\* C10: single machine: with num_machines = 1 every Assignment is on machine
\* 1, every zip code's machines list is [1] and machine_loads is the
\* one-element list of the sum of all input quantities.
C10_SingleMachine ==
    (Returned /\ num_machines = 1) =>
        /\ \A sa \in ScheduledAssignments : sa.machine = 1
        /\ DOMAIN machine_schedule = {1}
        /\ \A z \in ZipcodesOf(parsed_data) :
              /\ z \in DOMAIN zipcode_schedule
              /\ zipcode_schedule[z].machines = <<1>>
        /\ machine_loads = <<InputQuantity>>

\* a run on one machine has returned for two zip codes of different mail
\* dates and two Assignments
C10_Witness ==
    /\ Returned
    /\ num_machines = 1
    /\ Cardinality(ScheduledAssignments) >= 2
    /\ Cardinality({mail_dates[z] : z \in ZipcodesOf(parsed_data)}) >= 2

\* ---- the request
\* process_pdf_file has parsed the upload
Parsed ==
    pc \in {"start", "zip_days", "quantity", "posthoc", "zipcode_schedule", "run_sequence",
            "filter", "done", "raised", "report_raised", "rendered"}

\* process_pdf_file runs on an empty parse with a positive machine count
EmptyRun == Parsed /\ parsed_data = <<>> /\ num_machines >= 1

\* C11: empty input: when the parser yields no zip record and num_machines
\* >= 1, process_pdf_file (either strategy) does not raise, every block of it
\* runs to its end, and the Schedule it returns has an empty Assignment list
\* for every machine 1..num_machines, an empty zipcode_schedule, num_machines
\* zeros as machine_loads, total_load 0 and zip_code_count 0.
C11_EmptyInput ==
    EmptyRun =>
        /\ pc # "raised"
        /\ pc \in {"start", "zip_days", "quantity", "posthoc", "zipcode_schedule",
                   "run_sequence", "filter"} => ENABLED ProcessStep
        /\ Returned =>
              /\ DOMAIN Schedule.machine_schedule = 1..num_machines
              /\ \A m \in 1..num_machines : Schedule.machine_schedule[m] = <<>>
              /\ DOMAIN Schedule.zipcode_schedule = {}
              /\ Schedule.machine_loads = [m \in 1..num_machines |-> 0]
              /\ Schedule.total_load = 0
              /\ Schedule.zip_code_count = 0

\* process_pdf_file has returned for a document of two sections that both
\* were dropped, on two machines
C11_Witness ==
    /\ EmptyRun
    /\ Returned
    /\ Len(raw_data) = 2
    /\ num_machines = 2

\* the form of the request gives an integer machine count that is not positive
InvalidMachineCount ==
    /\ request.pdf_file = "pdf"
    /\ ~IntRaises(MachinesField(request.form))
    /\ IntOf(MachinesField(request.form)) <= 0

\* C12: invalid machine count: a request whose machine count is an integer
\* <= 0 is refused before process_pdf_file is entered: the handler goes from
\* the request straight to the flashed failure, and neither the engine runs
\* nor a report is rendered.
C12_InvalidMachineCount ==
    InvalidMachineCount => pc \in {"request", "flashed"}

\* the store lines of the table of a section: the lines a pattern matches
\* after the first header and before the first table end after it
TableRows(section) ==
    LET lines == section.lines
        headers == {i \in DOMAIN lines : lines[i].kind = "header"}
        in_table(i) ==
            \E h \in headers :
                /\ h < i
                /\ \A g \in headers : h <= g
                /\ \A e \in (h + 1)..(i - 1) : lines[e].kind # "end"
        rows == SelectSeq([i \in DOMAIN lines |-> [at |-> i, line |-> lines[i]]],
                    LAMBDA x : x.line.kind \in {"row3", "row2"} /\ in_table(x.at))
    IN [j \in DOMAIN rows |->
           [store_name |-> rows[j].line.store_name, quantity |-> rows[j].line.quantity]]

\* the sections that carry the marker of zipcode and have a store line
SectionsOf(zipcode) ==
    {k \in DOMAIN raw_data : raw_data[k].marker = zipcode /\ TableRows(raw_data[k]) # <<>>}

\* C13: the parser drops unusable sections: parsed_data holds a zip code only
\* if a section with that marker has a store line in its table, every record
\* has a non-empty store list, and a line no pattern matches ends neither its
\* section nor the parse: every section with a marker and a store line in its
\* table gives its zip code a record, and the record holds all store lines of
\* the table of the last such section.
C13_ParserDropsSections ==
    Parsed =>
        /\ \A i \in DOMAIN parsed_data :
              /\ parsed_data[i].stores # <<>>
              /\ SectionsOf(parsed_data[i].zipcode) # {}
              /\ \E k \in SectionsOf(parsed_data[i].zipcode) :
                    /\ \A o \in SectionsOf(parsed_data[i].zipcode) : o <= k
                    /\ parsed_data[i].stores = TableRows(raw_data[k])
              /\ \A j \in DOMAIN parsed_data :
                    parsed_data[j].zipcode = parsed_data[i].zipcode => j = i
        /\ \A k \in DOMAIN raw_data :
              (HasZipcode(raw_data[k]) /\ TableRows(raw_data[k]) # <<>>) =>
                  raw_data[k].marker \in ZipcodesOf(parsed_data)

\* a document of two sections was parsed: one has a store line after a line
\* no pattern matches and gave a record, the other has a marker and no store
\* line and gave none
C13_Witness ==
    /\ Parsed
    /\ Len(raw_data) = 2
    /\ Len(parsed_data) = 1
    /\ \E k, o \in DOMAIN raw_data :
          /\ raw_data[k].marker = parsed_data[1].zipcode
          /\ \E i \in DOMAIN raw_data[k].lines : raw_data[k].lines[i].kind = "junk"
          /\ HasZipcode(raw_data[o])
          /\ raw_data[o].marker # raw_data[k].marker
          /\ TableRows(raw_data[o]) = <<>>

\* ---- the greedy loops
\* the mail dates whose iteration of the by_zipcode loop has run
DaysDone ==
    IF scheduling_method = "by_zipcode" /\ pc \in {"zip_days", "run_sequence", "filter", "done"}
    THEN 1..(day - 1) ELSE {}

\* the by_store quantity pass has run
QuantityPassDone ==
    scheduling_method = "by_store" /\ pc \in {"posthoc", "zipcode_schedule", "run_sequence", "done"}

\* C14: running load invariant: after every step of the by_zipcode greedy
\* loop each machine's load is the sum of the weights of the zip codes
\* assigned to it so far and its store set the union of their stores; after
\* every step of the by_store quantity pass each machine's load is the sum of
\* the total quantities of the stores assigned to it so far.
C14_RunningLoads ==
    /\ \A d \in DaysDone :
          LET infos == SortedZipcodes(DateData(parsed_data, mail_dates, sorted_mail_dates[d]))
          IN \A k \in 0..Len(infos) :
                LET st == AssignZipcodes(EmptyMachines(num_machines), SubSeq(infos, 1, k))
                    on(m) == {j \in 1..k : st.zipcode_machine[infos[j].zipcode] = m}
                IN \A m \in Machines :
                      /\ st.machine_loads[m] =
                            SumSeq([j \in 1..k |->
                                IF j \in on(m) THEN SumQuantity(infos[j].stores) ELSE 0])
                      /\ st.machine_inserts[m] =
                            UNION {{infos[j].stores[i].store_name : i \in DOMAIN infos[j].stores} :
                                   j \in on(m)}
    /\ QuantityPassDone =>
          LET items == SortByQuantity(
                           StoreTotalQuantities(parsed_data, mail_dates, sorted_mail_dates))
          IN \A k \in 0..Len(items) :
                LET st == AssignAllByQuantity(
                              [rebalanced_assignments |-> <<>>,
                               current_machine_loads |-> Filled(num_machines, 0)],
                              SubSeq(items, 1, k))
                IN \A m \in Machines :
                      st.current_machine_loads[m] =
                          SumSeq([j \in 1..k |->
                              IF MachineOf(st.rebalanced_assignments, items[j].store) = m
                              THEN items[j].quantity ELSE 0])

\* the by_zipcode loop has run for a mail date of three zip codes on two
\* machines, one of weight 2 and two of them on one machine
C14_Witness ==
    /\ DaysDone # {}
    /\ num_machines = 2
    /\ \E y, z \in ZipcodesOf(parsed_data) :
          /\ y # z
          /\ Cardinality({x \in ZipcodesOf(parsed_data) : mail_dates[x] = mail_dates[y]}) = 3
          /\ mail_dates[y] = mail_dates[z]
          /\ {y, z} \subseteq DOMAIN zipcode_schedule
          /\ zipcode_schedule[y].machines = zipcode_schedule[z].machines
          /\ \E x \in ZipcodesOf(parsed_data) :
                /\ mail_dates[x] = mail_dates[y]
                /\ SumQuantity(SelectSeq(AllLines(parsed_data), LAMBDA l : l.zipcode = x)) = 2

\* the records of the mail date sorted_mail_dates[d], in input order
DayRecords(d) == SelectSeq(parsed_data, LAMBDA r : mail_dates[r.zipcode] = sorted_mail_dates[d])

\* the sum of the quantities of the store lines of a record
RecordWeight(r) == SumSeq([i \in DOMAIN r.stores |-> r.stores[i].quantity])

\* record j of a day is processed before record i: descending weight, ties
\* in input order
ProcessedBefore(recs, j, i) ==
    \/ RecordWeight(recs[j]) > RecordWeight(recs[i])
    \/ RecordWeight(recs[j]) = RecordWeight(recs[i]) /\ j < i

\* the machine the returned zipcode_schedule gives a zip code
OwnerOf(zipcode) == zipcode_schedule[zipcode].machines[1]

\* C15: machine selection rule of by_zipcode: the zip codes of a mail date
\* are processed in descending weight, ties in input order; each goes to a
\* machine of maximal score, the score being overlap - 0.5 * new_inserts -
\* 5 * load_fraction for a machine that holds stores and - 5 * load_fraction
\* for one that holds none (load_fraction 0 while the total load is 0), among
\* those to one of lowest load, and among those to the lowest machine id.
\* Scores are compared after multiplication by 2 * total load.
C15_SelectionRule ==
    \A d \in DaysDone :
        LET recs == DayRecords(d)
        IN \A i \in DOMAIN recs :
              LET earlier(m) == {j \in DOMAIN recs :
                                    ProcessedBefore(recs, j, i) /\ OwnerOf(recs[j].zipcode) = m}
                  load(m) == SumSeq([j \in DOMAIN recs |->
                                 IF j \in earlier(m) THEN RecordWeight(recs[j]) ELSE 0])
                  held(m) == UNION {{recs[j].stores[x].store_name : x \in DOMAIN recs[j].stores} :
                                    j \in earlier(m)}
                  mine == {recs[i].stores[x].store_name : x \in DOMAIN recs[i].stores}
                  total == SumSeq([m \in 1..num_machines |-> load(m)])
                  unit == IF total = 0 THEN 1 ELSE total
                  score(m) == IF held(m) = {}
                              THEN 0 - 10 * load(m)
                              ELSE 2 * unit * Cardinality(mine \cap held(m))
                                   - unit * Cardinality(mine \ held(m)) - 10 * load(m)
                  chosen == OwnerOf(recs[i].zipcode)
              IN \A o \in Machines :
                    /\ score(chosen) >= score(o)
                    /\ score(chosen) = score(o) => load(chosen) <= load(o)
                    /\ (score(chosen) = score(o) /\ load(chosen) = load(o)) => chosen <= o

\* a by_zipcode run on two machines has returned for a mail date of three zip
\* codes that list two stores between them, two of the zip codes on one
\* machine
C15_Witness ==
    /\ Returned
    /\ scheduling_method = "by_zipcode"
    /\ num_machines = 2
    /\ Len(parsed_data) = 3
    /\ \A z \in ZipcodesOf(parsed_data) : mail_dates[z] = mail_dates[parsed_data[1].zipcode]
    /\ Cardinality({l.store_name : l \in Range(AllLines(parsed_data))}) = 2
    /\ Cardinality({OwnerOf(z) : z \in ZipcodesOf(parsed_data)}) = 2

\* C16: per-day independence of by_zipcode: for every mail date, the
\* zipcode_schedule entries of the date's zip codes and the date's Assignments
\* on every machine, in their order, are those of a run on the zip records of
\* that date alone with the same num_machines: the records of the other mail
\* dates have no effect on them.
C16_PerDayIndependence ==
    (Returned /\ scheduling_method = "by_zipcode") =>
        \A d \in DOMAIN sorted_mail_dates :
            LET alone == RefByZipcode(DayRecords(d), mail_dates, num_machines)
            IN /\ \A i \in DOMAIN DayRecords(d) :
                     zipcode_schedule[DayRecords(d)[i].zipcode] =
                         alone.zipcode_schedule[DayRecords(d)[i].zipcode]
               /\ \A m \in Machines :
                     SelectSeq(machine_schedule[m],
                               LAMBDA a : a.mail_date = sorted_mail_dates[d])
                         = alone.machine_schedule[m]

\* a by_zipcode run on two machines has returned for two mail dates, the
\* later one of two zip codes that ended on different machines
C16_Witness ==
    /\ Returned
    /\ scheduling_method = "by_zipcode"
    /\ num_machines = 2
    /\ Len(sorted_mail_dates) = 2
    /\ Len(DayRecords(2)) = 2
    /\ OwnerOf(DayRecords(2)[1].zipcode) # OwnerOf(DayRecords(2)[2].zipcode)

\* ---- store_machine of by_zipcode, read off the Assignments of a mail date
\* the stores the records of mail date d list
DayStores(d) ==
    UNION {{DayRecords(d)[i].stores[x].store_name : x \in DOMAIN DayRecords(d)[i].stores} :
           i \in DOMAIN DayRecords(d)}

\* the records of mail date d that list store s and are owned by machine m
ListedOn(d, s, m) ==
    {i \in DOMAIN DayRecords(d) :
        /\ OwnerOf(DayRecords(d)[i].zipcode) = m
        /\ \E x \in DOMAIN DayRecords(d)[i].stores : DayRecords(d)[i].stores[x].store_name = s}

\* the sum of the quantities of store s over the zip codes of mail date d
\* owned by machine m
QuantityOn(d, s, m) ==
    SumSeq([i \in DOMAIN DayRecords(d) |->
        IF OwnerOf(DayRecords(d)[i].zipcode) = m
        THEN SumQuantity(SelectSeq(DayRecords(d)[i].stores, LAMBDA l : l.store_name = s))
        ELSE 0])

\* the load of machine m on mail date d: the weights of the zip codes it owns
DayLoad(d, m) ==
    SumSeq([i \in DOMAIN DayRecords(d) |->
        IF OwnerOf(DayRecords(d)[i].zipcode) = m THEN RecordWeight(DayRecords(d)[i]) ELSE 0])

\* the machines that hold an Assignment of store s and mail date d
MappedTo(d, s) ==
    {m \in Machines : \E i \in DOMAIN machine_schedule[m] :
        /\ machine_schedule[m][i].store = s
        /\ machine_schedule[m][i].mail_date = sorted_mail_dates[d]}

\* the machines on which store s has its highest quantity on mail date d
TopMachines(d, s) ==
    {m \in Machines : \A o \in Machines : QuantityOn(d, s, o) <= QuantityOn(d, s, m)}

\* C17 as stated: within a mail date each store is mapped to one machine, on
\* which the sum of its quantities over the zip codes owned by the machine is
\* highest, and when machines tie for the highest sum the store is mapped to
\* a least loaded one of them.
C17_TieToLeastLoaded ==
    \A d \in DaysDone : \A s \in DayStores(d) :
        /\ Cardinality(MappedTo(d, s)) = 1
        /\ MappedTo(d, s) \subseteq TopMachines(d, s)
        /\ \A c \in MappedTo(d, s) : \A o \in TopMachines(d, s) : DayLoad(d, c) <= DayLoad(d, o)

\* C17 amended: within a mail date each store is mapped to one machine, on
\* which the sum of its quantities over the zip codes owned by the machine is
\* highest, and when machines tie for the highest sum the store is mapped to
\* the one of them that owns the first, in input order, of the store's zip
\* codes on the tied machines.
C17_TieToFirstMet ==
    \A d \in DaysDone : \A s \in DayStores(d) :
        /\ Cardinality(MappedTo(d, s)) = 1
        /\ MappedTo(d, s) \subseteq TopMachines(d, s)
        /\ \A c \in MappedTo(d, s) : \A o \in TopMachines(d, s) :
              \A j \in ListedOn(d, s, o) : \E i \in ListedOn(d, s, c) : i <= j

\* the by_zipcode loop has run for a mail date on which a store has its
\* highest quantity on two machines, the one it is mapped to being the more
\* loaded
C17_Witness ==
    \E d \in DaysDone : \E s \in DayStores(d) :
        /\ Cardinality(TopMachines(d, s)) = 2
        /\ \E c \in MappedTo(d, s) : \E o \in TopMachines(d, s) : DayLoad(d, o) < DayLoad(d, c)

\* a zipcode_schedule with each machines list read as the set of its elements
MachineSets(zsched) ==
    [z \in DOMAIN zsched |->
        [machines |-> Range(zsched[z].machines),
         machine_count |-> Len(zsched[z].machines),
         mail_date |-> zsched[z].mail_date]]

\* C18: the quantity pass overrides the affinity pass: the Schedule by_store
\* returns is the Schedule of the run that never calls
\* create_machine_schedule and assigns the stores, in descending order of
\* total quantity with ties in order of first appearance, each to the machine
\* of lowest cumulative quantity, lowest id on ties (a machines list of
\* zipcode_schedule being read as the set it is built from).
C18_QuantityOverridesAffinity ==
    (Returned /\ scheduling_method = "by_store") =>
        LET quantity_only == RefByStore(parsed_data, mail_dates, num_machines)
        IN [Schedule EXCEPT !.zipcode_schedule = MachineSets(@)]
               = [quantity_only EXCEPT !.zipcode_schedule = MachineSets(@)]

\* a by_store run has returned whose affinity pass could place a store on
\* another machine than the one the store ended on
C18_Witness ==
    /\ Returned
    /\ scheduling_method = "by_store"
    /\ \E set_order \in Orders({l.store_name : l \in Range(AllLines(parsed_data))}) :
          LET affinity == create_machine_schedule(analyze_common_copies(parsed_data),
                                                  num_machines, set_order).machine_assignments
          IN \E i \in DOMAIN affinity :
                affinity[i].machine # MachineOf(machine_assignments, affinity[i].store)

\* the stores of the input
InputStores == {l.store_name : l \in Range(AllLines(parsed_data))}

\* store s shares no zip code with another store
Isolated(s) ==
    \A i \in DOMAIN parsed_data :
        \A x, y \in DOMAIN parsed_data[i].stores :
            (x # y /\ parsed_data[i].stores[x].store_name = s) =>
                parsed_data[i].stores[y].store_name = s

\* C19: the affinity pass covers isolated stores: in the map
\* create_machine_schedule returns every input store, the stores without
\* co-occurrence included, has exactly one machine in 1..num_machines, a
\* store without co-occurrence being on a machine that held the fewest stores
\* when it was placed, and the loads of the pass sum to the number of input
\* stores.
C19_AffinityCoversIsolated ==
    (pc = "quantity") =>
        /\ \A s \in InputStores :
              /\ Cardinality({i \in DOMAIN machine_assignments :
                                 machine_assignments[i].store = s}) = 1
              /\ MachineOf(machine_assignments, s) \in Machines
        /\ \A i \in DOMAIN machine_assignments :
              Isolated(machine_assignments[i].store) =>
                  LET held(m) == Cardinality({j \in 1..(i - 1) :
                                                 machine_assignments[j].machine = m})
                  IN \A o \in Machines : held(machine_assignments[i].machine) <= held(o)
        /\ SumSeq(machine_loads) = Cardinality(InputStores)

\* the Assignments of machine m on mail date d, in the order of the output
OutputOn(m, d) == SelectSeq(machine_schedule[m], LAMBDA a : a.mail_date = d)

OutputDates(m) == {machine_schedule[m][i].mail_date : i \in DOMAIN machine_schedule[m]}

\* C20: in the returned schedule, for each machine and each mail date with two
\* or more Assignments, the first Assignment has the highest total_quantity of
\* that machine and date, and every later position holds an Assignment that
\* maximizes overlap - 0.5 * change_cost against the Assignment before it
\* among the Assignments not yet placed, both computed on the sets {store}.
C20_NearestNeighbourWalk ==
    Returned =>
        \A m \in Machines : \A d \in OutputDates(m) :
            LET out == OutputOn(m, d)
            IN Len(out) >= 2 =>
                  /\ \A j \in DOMAIN out : out[1].total_quantity >= out[j].total_quantity
                  /\ \A p \in 2..Len(out) : \A q \in p..Len(out) :
                        StoreOverlapNum(out[p - 1], out[p]) >= StoreOverlapNum(out[p - 1], out[q])

\* a machine returns two Assignments of different total_quantity on one date
C20_Witness ==
    /\ Returned
    /\ \E m \in Machines : \E d \in OutputDates(m) :
          /\ Len(OutputOn(m, d)) >= 2
          /\ OutputOn(m, d)[1].total_quantity > OutputOn(m, d)[2].total_quantity

\* the quantities of the lines of store s in the record of zip code z
StoreQuantityIn(s, z) ==
    SumQuantity(SelectSeq(AllLines(parsed_data),
        LAMBDA l : l.store_name = s /\ l.zipcode = z))

RECURSIVE SumOver(_, _)
SumOver(S, s) ==
    IF S = {} THEN 0
    ELSE LET z == CHOOSE x \in S : TRUE
         IN StoreQuantityIn(s, z) + SumOver(S \ {z}, s)

\* C21: in the returned Schedule of either strategy there is at most one
\* Assignment per (store, mail_date) pair over all machines; every Assignment
\* has zip_code_count equal to the length of its zip_codes list and at least
\* 1, every listed zip code has the Assignment's mail date and lists the
\* store, and total_quantity is the sum of the store's quantities in the
\* listed zip codes.
C21_AssignmentWellFormed ==
    Returned =>
        /\ \A x, y \in ScheduledAssignments :
              (x.assignment.store = y.assignment.store
                 /\ x.assignment.mail_date = y.assignment.mail_date) => x = y
        /\ \A m \in Machines : \A i, j \in DOMAIN machine_schedule[m] :
              (machine_schedule[m][i].store = machine_schedule[m][j].store
                 /\ machine_schedule[m][i].mail_date = machine_schedule[m][j].mail_date) => i = j
        /\ \A x \in ScheduledAssignments :
              LET a == x.assignment
              IN /\ a.zip_code_count = Len(a.zip_codes)
                 /\ a.zip_code_count >= 1
                 /\ \A k \in DOMAIN a.zip_codes :
                       /\ a.zip_codes[k] \in ZipcodesOf(parsed_data)
                       /\ MailDateOf(mail_dates, a.zip_codes[k]) = a.mail_date
                       /\ StoreQuantityIn(a.store, a.zip_codes[k]) > 0
                 /\ a.total_quantity = SumOver(Range(a.zip_codes), a.store)

\* a returned Schedule holds an Assignment that lists two zip codes, of a
\* store that a third zip code of another mail date lists as well
C21_Witness ==
    /\ Returned
    /\ \E x, y \in ScheduledAssignments :
          /\ x.assignment.store = y.assignment.store
          /\ x.assignment.mail_date # y.assignment.mail_date
          /\ Cardinality(Range(x.assignment.zip_codes)) >= 2

\* C22: by_zipcode: in the returned Schedule every zip code listed in an
\* Assignment of machine m is owned by m in zipcode_schedule and has the
\* mail date of the Assignment, and the final filter, when it is about to
\* run, leaves every machine's Assignments as the per-day construction and
\* the run sequence left them.
C22_ZipOwnership ==
    /\ (Returned /\ scheduling_method = "by_zipcode") =>
          \A x \in ScheduledAssignments : \A k \in DOMAIN x.assignment.zip_codes :
              LET z == x.assignment.zip_codes[k]
              IN /\ z \in DOMAIN zipcode_schedule
                 /\ zipcode_schedule[z].machines = <<x.machine>>
                 /\ zipcode_schedule[z].mail_date = x.assignment.mail_date
                 /\ MailDateOf(mail_dates, z) = x.assignment.mail_date
    /\ pc = "filter" =>
          \A m \in Machines :
              FilteredAssignments(machine_schedule[m], MachineZipcodes(zipcode_schedule, m))
                  = machine_schedule[m]

\* a by_zipcode run has returned with Assignments on two machines, one of
\* them listing two zip codes
C22_Witness ==
    /\ Returned
    /\ scheduling_method = "by_zipcode"
    /\ \E x, y \in ScheduledAssignments :
          /\ x.machine # y.machine
          /\ Cardinality(Range(x.assignment.zip_codes)) >= 2

\* C23: by_store: the post-hoc pass, run on the assignment of the quantity
\* pass, accepts no move: the store-to-machine map and the machine totals
\* after the pass equal those before it.
C23_PostHocNeverMoves ==
    [][pc = "posthoc" =>
          /\ machine_assignments' = machine_assignments
          /\ machine_total_quantities' = machine_total_quantities]_vars

\* the post-hoc pass has run with a candidate move to test: a machine above
\* 1.3 times the mean that holds a store, and a machine below 0.7 times the
\* mean that holds one as well
C23_Witness ==
    /\ pc = "zipcode_schedule"
    /\ scheduling_method = "by_store"
    /\ \E m, u \in Machines :
          /\ Overloaded(machine_total_quantities[m], InputQuantity, num_machines)
          /\ Underloaded(machine_total_quantities[u], InputQuantity, num_machines)
          /\ machine_total_quantities[u] > 0
          /\ \E i \in DOMAIN machine_assignments : machine_assignments[i].machine = m

\* the sum of zip_code_count over the Assignments of machine m on mail date d
CountOn(m, d) ==
    SumSeq([i \in DOMAIN OutputOn(m, d) |-> OutputOn(m, d)[i].zip_code_count])

\* C24: in the returned Schedule of either strategy, machine_loads[m-1] is
\* the sum of total_quantity over the Assignments of machine_schedule[m],
\* machine_loads_by_date[d][m-1] is the sum of zip_code_count over the
\* Assignments of machine m with mail date d, and total_load is the sum of
\* machine_loads.
C24_ReportedLoads ==
    Returned =>
        /\ Len(machine_loads) = num_machines
        /\ \A m \in Machines : machine_loads[m] = TotalQuantity(machine_schedule[m])
        /\ DOMAIN machine_loads_by_date = UNION {OutputDates(m) : m \in Machines}
        /\ \A d \in DOMAIN machine_loads_by_date :
              /\ Len(machine_loads_by_date[d]) = num_machines
              /\ \A m \in Machines : machine_loads_by_date[d][m] = CountOn(m, d)
        /\ total_load = SumSeq(machine_loads)

\* a Schedule is returned with Assignments of two mail dates and one machine
\* holding an Assignment whose zip_code_count and total_quantity differ
C24_Witness ==
    /\ Returned
    /\ Cardinality(DOMAIN machine_loads_by_date) >= 2
    /\ \E x \in ScheduledAssignments :
          x.assignment.zip_code_count # x.assignment.total_quantity

\* how many entries of the list equal the Assignment a, field by field
Occurrences(assignments, a) == Cardinality({i \in DOMAIN assignments : assignments[i] = a})

SameAssignments(before, after) ==
    /\ Len(after) = Len(before)
    /\ \A a \in Range(before) \cup Range(after) :
          Occurrences(after, a) = Occurrences(before, a)

\* the Assignments of one mail date are next to each other
Contiguous(assignments) ==
    \A i, k \in DOMAIN assignments :
        (i < k /\ assignments[i].mail_date = assignments[k].mail_date) =>
            \A j \in i..k : assignments[j].mail_date = assignments[i].mail_date

\* C25: the run-sequence step permutes: for every machine the Assignment
\* list after the step holds exactly the Assignments the machine had before
\* it, each once and with every field unchanged, and the Assignments of one
\* mail date are contiguous.
C25_RunSequencePermutes ==
    [][pc = "run_sequence" =>
          \A m \in Machines :
              /\ SameAssignments(machine_schedule[m], machine_schedule'[m])
              /\ Contiguous(machine_schedule'[m])]_vars

\* the run-sequence step has run on a machine that holds Assignments of two
\* mail dates, two of them of one date
C25_Witness ==
    /\ pc \in {"filter", "done"}
    /\ \E m \in Machines :
          /\ Cardinality(OutputDates(m)) >= 2
          /\ \E d \in OutputDates(m) : Len(OutputOn(m, d)) >= 2

\* the Assignments of mail date d in a list of Assignments
OfDate(assignments, d) == SelectSeq(assignments, LAMBDA a : a.mail_date = d)

\* the least position of an Assignment of highest total_quantity
FirstHighest(assignments) ==
    CHOOSE i \in DOMAIN assignments :
        /\ \A j \in DOMAIN assignments :
              assignments[j].total_quantity <= assignments[i].total_quantity
        /\ \A j \in 1..(i - 1) :
              assignments[j].total_quantity < assignments[i].total_quantity

\* C26: the walk is degenerate: the run-sequence step turns the Assignments
\* of a machine and mail date, two or more with distinct store names, into
\* the first Assignment of maximal total_quantity followed by all the others
\* in the order they had before the step.
C26_WalkKeepsInsertionOrder ==
    [][pc = "run_sequence" =>
          \A m \in Machines : \A d \in OutputDates(m) :
              LET before == OfDate(machine_schedule[m], d)
                  after == OfDate(machine_schedule'[m], d)
                  h == FirstHighest(before)
              IN Len(before) >= 2 =>
                    /\ \A i, j \in DOMAIN before : before[i].store = before[j].store => i = j
                    /\ Len(after) = Len(before)
                    /\ after[1] = before[h]
                    /\ \A j \in 1..(h - 1) : after[j + 1] = before[j]
                    /\ \A j \in (h + 1)..Len(before) : after[j] = before[j]]_vars

\* the step has run on three Assignments of one machine and date that were
\* built in the order of the store lines of the input, and has moved the
\* one of highest total_quantity from the middle to the front
C26_Witness ==
    /\ pc \in {"filter", "done"}
    /\ parsed_data \in UnevenStoreDocuments
    /\ \E m \in Machines : \E d \in OutputDates(m) :
          /\ Len(OutputOn(m, d)) = 3
          /\ OutputOn(m, d)[1].store = NameOrder[2]
          /\ OutputOn(m, d)[2].store = NameOrder[1]
          /\ OutputOn(m, d)[3].store = NameOrder[3]

\* ------------------------------------------------- requests in parallel
Clients == {1, 2}

\* the names the uploads are posted under
FileNames == {"a.pdf", "a b.pdf", "a_b.pdf"}

\* secure_filename(pdf_file.filename): a space becomes an underscore
secure_filename(filename) == IF filename = "a b.pdf" THEN "a_b.pdf" ELSE filename

\* the texts of the posted documents: no section, one section of one row,
\* two sections of one row each
PostedDocuments ==
    {<<>>,
     <<[marker |-> ZipNames[1],
        lines |-> <<HeaderLine, [kind |-> "row3", store_name |-> NameOrder[1], quantity |-> 1]>>]>>,
     <<[marker |-> ZipNames[1],
        lines |-> <<HeaderLine, [kind |-> "row3", store_name |-> NameOrder[1], quantity |-> 1]>>],
       [marker |-> ZipNames[2],
        lines |-> <<HeaderLine, [kind |-> "row2", store_name |-> NameOrder[2], quantity |-> 1]>>]>>}

\* the forms of the posted requests
PostedForms ==
    {[num_machines |-> 1, scheduling_method |-> "by_store"],
     [num_machines |-> 2, scheduling_method |-> "by_zipcode"]}

\* get_zip_mail_dates(): the table of the application directory, the same
\* for every request; it lists the first zip code alone
ZipMailDates(data) ==
    [z \in ZipcodesOf(data) |-> IF z = ZipNames[1] THEN "MON" ELSE ""]

\* process_pdf_file on the text of the file at pdf_path
process_pdf_file(text, num, method) ==
    LET data == parse_pick_lists(text)
    IN IF method = "by_zipcode"
       THEN RefByZipcode(data, ZipMailDates(data), num)
       ELSE RefByStore(data, ZipMailDates(data), num)

\* what create_excel_report writes to the workbook
create_excel_report(result) ==
    [machine_schedule |-> result.machine_schedule,
     zipcode_schedule |-> result.zipcode_schedule,
     machine_loads_by_date |-> result.machine_loads_by_date,
     mail_dates |-> result.mail_dates]

Single == <<parsed_data, mail_dates, num_machines, scheduling_method, pc, request, raw_data,
            Engine>>

ConcurrentInit ==
    /\ clients \in [Clients -> [pc : {"post"}, filename : FileNames,
                                document : PostedDocuments, form : PostedForms,
                                result : {<<>>}, download : {<<>>}]]
    /\ uploads = <<>>
    /\ excel_file = <<>>
    /\ parsed_data = Unset
    /\ mail_dates = Unset
    /\ num_machines = Unset
    /\ scheduling_method = Unset
    /\ pc = "serving"
    /\ sorted_mail_dates = Unset
    /\ day = 0
    /\ machine_assignments = Unset
    /\ machine_loads = Unset
    /\ machine_schedule = Unset
    /\ zipcode_schedule = Unset
    /\ machine_total_quantities = Unset
    /\ zipcode_machine_mapping = Unset
    /\ machine_loads_by_date = Unset
    /\ total_load = 0
    /\ request = Unset
    /\ raw_data = Unset

\* lines 1128-1131: the upload is saved under its secured name
SaveUpload(c) ==
    /\ clients[c].pc = "post"
    /\ uploads' = (secure_filename(clients[c].filename) :> clients[c].document) @@ uploads
    /\ clients' = [clients EXCEPT ![c].pc = "saved"]
    /\ UNCHANGED <<excel_file, Single>>

\* line 1134: the file at pdf_path is read, parsed and scheduled
ProcessUpload(c) ==
    /\ clients[c].pc = "saved"
    /\ clients' = [clients EXCEPT
          ![c].pc = "scheduled",
          ![c].result = <<process_pdf_file(uploads[secure_filename(clients[c].filename)],
                                           clients[c].form.num_machines,
                                           clients[c].form.scheduling_method)>>]
    /\ UNCHANGED <<uploads, excel_file, Single>>

\* lines 1137-1174 and 929-1105: the report is written to machine_schedule.xlsx
\* and the results are rendered with its name; StopIteration (line 1064)
\* leaves the workbook unwritten and the handler flashes the error
WriteReport(c) ==
    /\ clients[c].pc = "scheduled"
    /\ IF DOMAIN clients[c].result[1].machine_loads_by_date = {}
       THEN /\ clients' = [clients EXCEPT ![c].pc = "flashed"]
            /\ UNCHANGED excel_file
       ELSE /\ excel_file' = <<create_excel_report(clients[c].result[1])>>
            /\ clients' = [clients EXCEPT ![c].pc = "rendered"]
    /\ UNCHANGED <<uploads, Single>>

\* lines 1181-1192: the link of the results page sends machine_schedule.xlsx
DownloadFile(c) ==
    /\ clients[c].pc = "rendered"
    /\ excel_file # <<>>
    /\ clients' = [clients EXCEPT ![c].pc = "downloaded", ![c].download = excel_file]
    /\ UNCHANGED <<uploads, excel_file, Single>>

ConcurrentNext ==
    \E c \in Clients :
        \/ SaveUpload(c)
        \/ ProcessUpload(c)
        \/ WriteReport(c)
        \/ DownloadFile(c)

ConcurrentSpec == ConcurrentInit /\ [][ConcurrentNext]_vars

\* the Schedule of a request's own document and form
OwnSchedule(c) ==
    process_pdf_file(clients[c].document, clients[c].form.num_machines,
                     clients[c].form.scheduling_method)

\* C27: requests in flight do not interfere: however their steps interleave,
\* the Schedule computed for a request is the Schedule of its own document
\* and form, and the report it downloads is the report of that Schedule.
C27_NoInterference ==
    \A c \in Clients :
        /\ clients[c].result # <<>> => clients[c].result[1] = OwnSchedule(c)
        /\ clients[c].download # <<>> =>
              clients[c].download[1] = create_excel_report(OwnSchedule(c))

====
